---- MODULE Spec2Model ----
(***************************************************************************)
(* Model of the heterogeneous-memory page migration engine of the Coyote   *)
(* driver (driver/LEGACY/hmm/fpga_hmm.c): the accelerator TLB mapping      *)
(* manager, the device-private page allocator, the residency lists, the    *)
(* two migration directions, the CPU-fault path and the MMU notifier.      *)
(*                                                                         *)
(* One device, one host process.  Addresses are byte addresses, page       *)
(* frame numbers are small integers in disjoint ranges so that a value of  *)
(* one kind used as another is visible:                                    *)
(*    host page frames      1 .. NumVPages                                 *)
(*    device-private pages  DevPfnBase + 1 ..                              *)
(*    card memory addresses CardBase + 1 ..                                *)
(*    hmm_prvt_info records InfoBase + 1 ..                                *)
(* A kernel oops (NULL or poisoned pointer dereference, BUG_ON, a loop     *)
(* running off its arrays) ends the behaviour: oops = TRUE is terminal.    *)
(***************************************************************************)
EXTENDS Integers, Sequences, FiniteSets, TLC

\* ------------------------------------------------------------ bounds
\* pages of the one virtual-memory-area of the host process
NumVPages == 2
\* chunks alloc_new_prvt_pages may register before the region is exhausted
MaxChunks == 3
\* longest range (in regular pages) drawn for the TLB function checks
MaxTlbPages == 4
\* completions the accelerator may owe at one time, per completion flag
MaxHwPending == 2
\* invalidations the host memory manager announces in one behaviour
MaxSeq == 2
\* allocation failures that may be injected in one behaviour
MaxFaults == 1
\* ticks of the clock in one behaviour
MaxJiffies == 4
\* releases of d->page_lock without an acquire that one context may make
MaxUnbalanced == 1

\* ------------------------------------------------------- program constants
PAGE_SHIFT == 12
PAGE_SIZE == 4096
\* pages of one chunk, DEVMEM_CHUNK_SIZE >> PAGE_SHIFT: 65536 in the driver,
\* scaled down to one
DEVMEM_CHUNK_PAGES == 1
\* bd_data->n_pages_in_huge and bd_data->dif_order_page_shift, scaled down
\* from 512 and 9
n_pages_in_huge == 2
dif_order_page_shift == 1
MAX_N_MAP_PAGES == 128

NULL == 0
DevPfnBase == 100
CardBase == 200
InfoBase == 300
\* what a read through a mistyped pointer yields
GARBAGE == 999

HOST_ACCESS == "HOST_ACCESS"
CARD_ACCESS == "CARD_ACCESS"
STRM_ACCESS == "STRM_ACCESS"
BAD_ACCESS == "BAD_ACCESS"
FLAG_SET == "SET"
FLAG_CLR == "CLR"

\* vma->vm_start: the area starts at the second huge-page boundary
VmaStart == n_pages_in_huge * PAGE_SIZE
VmaEnd == VmaStart + NumVPages * PAGE_SIZE
VPages == 0 .. (NumVPages - 1)
PageAddr(v) == VmaStart + v * PAGE_SIZE
Ctids == {0, 1}
Threads == {1, 2}

HostFrames == 1 .. NumVPages
NumDevPages == MaxChunks * DEVMEM_CHUNK_PAGES
DevPages == (DevPfnBase + 1) .. (DevPfnBase + NumDevPages)
CardAddrs == (CardBase + 1) .. (CardBase + NumVPages)
InfoIds == (InfoBase + 1) .. (InfoBase + NumDevPages + NumVPages)
NoInfo == [ctid |-> -1, huge |-> FALSE, card_address |-> 0, linked |-> FALSE]

Shr(x, n) == x \div (2 ^ n)
Shl(x, n) == x * (2 ^ n)
Min(S) == CHOOSE x \in S : \A y \in S : x <= y
Range(s) == {s[i] : i \in DOMAIN s}
Zeros(n) == [i \in 1 .. n |-> 0]
PageNo(v) == Shr(PageAddr(v), PAGE_SHIFT)

VARIABLES
    pte,            \* host page table: per page [k, pg]
    host_free,      \* host frames held by the host memory manager
    tlb,            \* accelerator mapping table: <<huge, vaddr>> -> entry
    free_pages,     \* d->free_pages: head of the device-private free list
    zdd,            \* page->zone_device_data of every device-private page
    mem_sections,   \* number of registered chunks (d->mem_sections)
    info,           \* the hmm_prvt_info records
    migrated_pages, \* migrated_pages[d->id][ctid]: list of records
    card_used,      \* card memory addresses handed out by the card allocator
    card_bad_free,  \* addresses released while not allocated (double free)
    page_locked,    \* pages locked with lock_page
    mmu_lock,       \* d->mmu_lock: 0 or the holding thread
    dma_lock,       \* d->sync_lock, d->offload_lock: 0 or the holding thread
    page_lock,      \* d->page_lock: [holder, depth]; holder is 0 or the
                    \* holding thread, depth[t] the acquires of thread t
                    \* minus its releases
    wait_flag,      \* d->wait_invldt, d->wait_sync, d->wait_offload
    hw_pending,     \* completions the accelerator still owes, per flag
    cur_seq,        \* sequence number of the last invalidation announced
    notifier_seq,   \* sequence number the notifier has recorded
    jiffies,        \* the kernel's clock
    thp,            \* whether the area is backed by transparent huge pages
    oops,           \* the kernel oopsed
    faults,         \* allocation failures that may still be injected
    fr              \* per thread: the running operation and its locals

memvars == <<pte, host_free, page_locked, thp>>
tlbvars == <<tlb>>
allocvars == <<free_pages, zdd, mem_sections>>
resvars == <<info, migrated_pages, card_used, card_bad_free>>
lockvars == <<mmu_lock, dma_lock, page_lock>>
hwvars == <<wait_flag, hw_pending>>
seqvars == <<cur_seq, notifier_seq, jiffies>>
envvars == <<cur_seq, notifier_seq, jiffies, faults>>
vars == <<pte, host_free, tlb, free_pages, zdd, mem_sections, info,
          migrated_pages, card_used, card_bad_free, page_locked, mmu_lock,
          dma_lock, page_lock, wait_flag, hw_pending, cur_seq, notifier_seq,
          jiffies, thp, oops, faults,
          fr>>

\* ------------------------------------------------------------------ TLB
\* The accelerator table itself (create_tlb_mapping, create_tlb_unmapping
\* and invalidate_tlb_entry are outside this file): one entry per
\* (granularity, virtual address) of the host process.
create_tlb_mapping(T, huge, vaddr, paddr, host, ctid) ==
    [k \in DOMAIN T \cup {<<huge, vaddr>>} |->
        IF k = <<huge, vaddr>>
        THEN [paddr |-> paddr, host |-> host, ctid |-> ctid]
        ELSE T[k]]

create_tlb_unmapping(T, huge, vaddr) ==
    [k \in DOMAIN T \ {<<huge, vaddr>>} |-> T[k]]

pg_inc_of(huge) == IF huge THEN n_pages_in_huge ELSE 1

n_map_pages_of(n_pages, huge) ==
    IF huge THEN Shr(n_pages, dif_order_page_shift) ELSE n_pages

\* the fill loop of tlb_map_hmm: paddr is indexed from 0 in the code
RECURSIVE tlb_map_loop(_, _, _, _, _, _, _, _)
tlb_map_loop(T, i, tmp_vaddr, paddr, n_map_pages, host, ctid, huge) ==
    IF ~(i < n_map_pages /\ i < MAX_N_MAP_PAGES)
    THEN T
    ELSE IF paddr[i + 1] = 0
    THEN tlb_map_loop(T, i + pg_inc_of(huge), tmp_vaddr, paddr,
                      n_map_pages, host, ctid, huge)
    ELSE tlb_map_loop(
            create_tlb_mapping(T, huge, tmp_vaddr, paddr[i + 1], host, ctid),
            i + pg_inc_of(huge), tmp_vaddr + pg_inc_of(huge), paddr,
            n_map_pages, host, ctid, huge)

tlb_map_hmm(T, vaddr, paddr, n_pages, host, ctid, huge) ==
    tlb_map_loop(T, 0, vaddr, paddr, n_map_pages_of(n_pages, huge),
                 host, ctid, huge)

\* a variant of tlb_unmap_hmm that the properties must tell from it: it
\* installs an entry where it finds none
tlb_unmap_hmm_toggle(T, vaddr, n_pages, huge) ==
    IF n_pages = 0 THEN T
    ELSE IF <<huge, vaddr>> \in DOMAIN T
    THEN create_tlb_unmapping(T, huge, vaddr)
    ELSE create_tlb_mapping(T, huge, vaddr, GARBAGE, CARD_ACCESS, 0)

\* the first loop of tlb_unmap_hmm
RECURSIVE tlb_unmap_loop(_, _, _, _, _)
tlb_unmap_loop(T, i, tmp_vaddr, n_map_pages, huge) ==
    IF ~(i < n_map_pages)
    THEN T
    ELSE tlb_unmap_loop(create_tlb_unmapping(T, huge, tmp_vaddr),
                        i + pg_inc_of(huge), tmp_vaddr + pg_inc_of(huge),
                        n_map_pages, huge)

tlb_unmap_hmm(T, vaddr, n_pages, huge) ==
    tlb_unmap_loop(T, 0, vaddr, n_map_pages_of(n_pages, huge), huge)

\* the second loop of tlb_unmap_hmm: the invalidate commands it issues, in
\* order; n_map_pages - pg_inc wraps in 32 bits unsigned when negative and
\* then equals no index i >= 0, exactly as the negative integer does here
RECURSIVE invalidate_loop(_, _, _, _)
invalidate_loop(i, tmp_vaddr, n_map_pages, huge) ==
    IF ~(i < n_map_pages)
    THEN <<>>
    ELSE <<[vaddr |-> tmp_vaddr,
            last |-> (i = n_map_pages - pg_inc_of(huge))]>>
         \o invalidate_loop(i + pg_inc_of(huge), tmp_vaddr + pg_inc_of(huge),
                            n_map_pages, huge)

invalidate_cmds(vaddr, n_pages, huge) ==
    invalidate_loop(0, vaddr, n_map_pages_of(n_pages, huge), huge)

\* completions the accelerator owes for a batch: one per is_last command
n_last(cmds) == Cardinality({k \in DOMAIN cmds : cmds[k].last})

\* ------------------------------------------------- allocation failures
\* the outcomes a step may take: a failure only while the budget lasts
Budget(S) == IF faults > 0 THEN S ELSE S \cap {"ok", "fault"}
Charge(outcome) == IF outcome \in {"ok", "fault"} THEN faults ELSE faults - 1

\* ------------------------------------------------- device-private pages
\* The allocator state is the record [head, zdd, sections]: the free list is
\* the chain head -> zdd[head] -> ... of zone_device_data pointers.
Alloc == [head |-> free_pages, zdd |-> zdd, sections |-> mem_sections]

\* cpu_free_private_page on a device-private page: push on the free list
cpu_free_private_page(A, page) ==
    [A EXCEPT !.zdd[page] = A.head, !.head = page]

\* put_page dropping the reference get_page took on a device-private page:
\* the page is released through dev_pagemap_ops.page_free
put_page(A, page) == cpu_free_private_page(A, page)

ChunkPage(c, k) == DevPfnBase + c * DEVMEM_CHUNK_PAGES + k

\* the push loop of alloc_new_prvt_pages over the pages of the new chunk
RECURSIVE push_chunk(_, _, _)
push_chunk(A, c, k) ==
    IF k > DEVMEM_CHUNK_PAGES THEN A
    ELSE push_chunk(cpu_free_private_page(A, ChunkPage(c, k)), c, k + 1)

\* alloc_new_prvt_pages: what is an outcome of the three steps that can fail
GrowOutcomes == {"ok", "no_devmem", "no_region", "no_remap"}

alloc_new_prvt_pages(A, outcome) ==
    IF outcome = "ok"
    THEN [ret |-> "OK",
          A |-> push_chunk([A EXCEPT !.sections = @ + 1], A.sections, 1)]
    ELSE IF outcome = "no_remap"
    THEN [ret |-> "OK", A |-> A]
    ELSE [ret |-> "ENOMEM", A |-> A]

\* alloc_private_page: [page, A, crash]; crash is the NULL dereference of
\* the pop from an empty list
alloc_private_page(A, outcome) ==
    LET g == IF A.head = NULL
             THEN alloc_new_prvt_pages(A, outcome)
             ELSE [ret |-> "OK", A |-> A]
        B == g.A
    IN  IF g.ret # "OK"
        THEN [page |-> NULL, A |-> B, crash |-> FALSE]
        ELSE IF B.head = NULL
        THEN [page |-> NULL, A |-> B, crash |-> TRUE]
        ELSE [page |-> B.head,
              A |-> [B EXCEPT !.head = B.zdd[B.head], !.zdd[B.head] = NULL],
              crash |-> FALSE]

\* outcomes alloc_new_prvt_pages can have in this state
GrowChoices(A) ==
    IF A.head # NULL THEN {"ok"}
    ELSE IF A.sections < MaxChunks THEN Budget(GrowOutcomes)
    ELSE GrowOutcomes \ {"ok"}

\* a chunk refused because the region is used up is not an injected failure
GrowCharge(A, outcome) ==
    IF A.head = NULL /\ A.sections >= MaxChunks THEN faults
    ELSE Charge(outcome)

\* the n contiguous host frames an allocation of that order takes
HostRun(free, n) ==
    IF free = {} THEN {} ELSE {Min(free) + k : k \in 0 .. (n - 1)}

\* whether alloc_page_vma / alloc_pages yields the run of host pages
HostGot(run) ==
    IF ~(run # {} /\ run \subseteq host_free) THEN {FALSE}
    ELSE IF faults > 0 THEN BOOLEAN ELSE {TRUE}
HostCharge(run, got) ==
    IF ~got /\ run # {} /\ run \subseteq host_free THEN faults - 1 ELSE faults

\* pages reachable from the head of the free list
RECURSIVE FreeChain(_, _, _)
FreeChain(head, z, seen) ==
    IF head = NULL \/ head \in seen \/ head \notin DevPages THEN seen
    ELSE FreeChain(z[head], z, seen \cup {head})

FreeSet == FreeChain(free_pages, zdd, {})

\* ------------------------------------------------------ residency lists
\* The residency state is the record [info, lists, used, bad].
Res == [info |-> info, lists |-> migrated_pages, used |-> card_used,
        bad |-> card_bad_free]

FreshInfo(R) == Min({id \in InfoIds : R.info[id] = NoInfo})

\* kzalloc + field assignments + list_add of the zone setup loop
list_add_info(R, ctid, huge, card_address) ==
    LET id == FreshInfo(R)
    IN  [R EXCEPT !.info[id] = [ctid |-> ctid, huge |-> huge,
                                card_address |-> card_address,
                                linked |-> TRUE],
                  !.lists[ctid] = <<id>> \o @]

SeqWithout(s, x) == SelectSeq(s, LAMBDA y : y # x)

\* list_del of a linked entry
list_del(R, id) ==
    [R EXCEPT !.info[id].linked = FALSE,
              !.lists = [c \in Ctids |-> SeqWithout(R.lists[c], id)]]

\* the card-memory byte allocator (outside this file)
alloc_card_memory(R, n) ==
    LET free == CardAddrs \ R.used
        pick[k \in 0 .. n] ==
            IF k = 0 THEN <<>>
            ELSE Append(pick[k - 1], Min(free \ Range(pick[k - 1])))
    IN  [R |-> [R EXCEPT !.used = @ \cup Range(pick[n])], addrs |-> pick[n]]

free_card_memory(R, addrs) ==
    [R EXCEPT !.used = @ \ Range(addrs),
              !.bad = @ \cup {a \in Range(addrs) : a \notin R.used}]

\* records no list and no page refers to are forgotten (the code leaks them)
Forget(R, z) ==
    [R EXCEPT !.info = [id \in InfoIds |->
        IF R.info[id].linked \/ \E p \in DevPages : z[p] = id
        THEN R.info[id] ELSE NoInfo]]

\* -------------------------------------------------------- host memory
VIndex(addr) == (addr - VmaStart) \div PAGE_SIZE
InVma(addr) == addr >= VmaStart /\ addr < VmaEnd

\* host_ptw: the page behind a device-private entry, NULL for anything else
host_ptw(P, vaddr) ==
    IF InVma(vaddr) /\ P[VIndex(vaddr)].k = "dev"
    THEN P[VIndex(vaddr)].pg ELSE NULL

\* migrate_vma_setup: which pages of the range are collected.  select is
\* "system" (MIGRATE_VMA_SELECT_SYSTEM) or "device" (..._DEVICE_PRIVATE).
Eligible(P, v, select) ==
    \/ select = "system" /\ P[v].k = "host"
    \/ select = "device" /\ P[v].k = "dev"

migrate_vma_setup_src(P, v0, n, select) ==
    [i \in 1 .. n |-> Eligible(P, v0 + i - 1, select)]

migrate_vma_setup_pte(P, v0, n, select) ==
    [v \in VPages |->
        IF v >= v0 /\ v < v0 + n /\ Eligible(P, v, select)
        THEN [k |-> IF P[v].k = "host" THEN "mig_host" ELSE "mig_dev",
              pg |-> P[v].pg]
        ELSE P[v]]

\* migrate_vma_pages + migrate_vma_finalize on the host state
\* M = [pte, host_free, A, locked]; page i moves to dst[i] when that is set
\* and is restored to its source otherwise.  A released device-private
\* source page comes back through page_free.
RECURSIVE migrate_vma_finalize(_, _, _, _, _)
migrate_vma_finalize(M, v0, src, dst, i) ==
    IF i > Len(src) THEN M
    ELSE IF ~src[i] THEN migrate_vma_finalize(M, v0, src, dst, i + 1)
    ELSE LET v == v0 + i - 1
             old == M.pte[v]
         IN  IF dst[i] = 0
             THEN migrate_vma_finalize(
                    [M EXCEPT !.pte[v] =
                        [k |-> IF old.k = "mig_host" THEN "host" ELSE "dev",
                         pg |-> old.pg]],
                    v0, src, dst, i + 1)
             ELSE migrate_vma_finalize(
                    [M EXCEPT
                        !.pte[v] = [k |-> IF dst[i] \in DevPages
                                          THEN "dev" ELSE "host",
                                    pg |-> dst[i]],
                        !.locked = @ \ {dst[i]},
                        !.host_free = IF old.k = "mig_host"
                                      THEN @ \cup {old.pg} ELSE @,
                        !.A = IF old.k = "mig_dev"
                              THEN put_page(@, old.pg) ELSE @],
                    v0, src, dst, i + 1)

Mem == [pte |-> pte, host_free |-> host_free, A |-> Alloc,
        locked |-> page_locked]

\* ------------------------------------------------------------ frames
NoIn == [vaddr |-> 0, len |-> 0, ctid |-> 0, stream |-> "none"]
NoSnap == [tlb |-> <<>>, pte |-> <<>>, lists |-> <<>>, used |-> {}]

NoFrame ==
    [pc |-> "idle", op |-> "none", in |-> NoIn, nested |-> FALSE,
     ctid |-> 0, vaddr |-> 0, n_pages |-> 0, hugepages |-> FALSE,
     src |-> <<>>, spages |-> <<>>, dpages |-> <<>>, dst |-> <<>>,
     cpages |-> 0, npages |-> 0, i |-> 0, dpages_fail |-> FALSE,
     host_address |-> <<>>, card_address |-> <<>>, calloc |-> <<>>,
     ret |-> "OK", staged |-> "no", mm |-> FALSE, fn |-> "none",
     timeout |-> 0, range_seq |-> 0, hmm_pfns |-> <<>>,
     snap |-> NoSnap]

Snap == [tlb |-> tlb, pte |-> pte, lists |-> migrated_pages,
         used |-> card_used]

Upd(t, f) == fr' = [fr EXCEPT ![t] = f]

Crash(t) ==
    /\ oops' = TRUE
    /\ fr' = [fr EXCEPT ![t].pc = "oops"]

\* the pc a migration function returns to, by entry point
RetPc(f) ==
    IF f.nested THEN "thp_ret"
    ELSE IF f.op = "mmu_handler" THEN "h_exit"
    ELSE IF f.op \in {"user_to_host", "user_to_card"} THEN "u_exit"
    ELSE "done"

\* where an entry point continues after its is_thp probe
AfterProbe(f) ==
    IF f.op = "mmu_handler" THEN "h_disp"
    ELSE IF f.op = "notifier" THEN "n_check"
    ELSE "u_lock"

\* the locals cpu_migrate_to_host starts with for a fault at addr
\* (lines 361-372); the faulting page is device-private
CpuFaultFrame(f, addr) ==
    LET zone_data == info[zdd[pte[VIndex(addr)].pg]]
        psz == pg_inc_of(zone_data.huge) * PAGE_SIZE
    IN  [f EXCEPT !.pc = "cf_setup", !.fn = "cpu",
                  !.hugepages = zone_data.huge,
                  !.ctid = zone_data.ctid,
                  !.vaddr = (addr \div psz) * psz,
                  !.n_pages = pg_inc_of(zone_data.huge),
                  !.ret = "OK", !.staged = "no", !.dpages_fail = FALSE]

\* is_thp: get_user_pages_remote faults the page at addr in for write; a
\* device-private page is first brought back by migrate_to_ram, which is
\* cpu_migrate_to_host.  A page under migration makes the fault wait.
\* Outside the area vma_lookup gives NULL and vma->vm_mm is a NULL
\* dereference; find_vma of the explicit calls gives the area for an address
\* below it, get_user_pages_remote then fails and pages[0] is read
\* uninitialized: the kernel oopses or is_thp returns some value, which no
\* step reads before the range is refused.
is_thp(t, f, addr) ==
    IF ~InVma(addr)
    THEN \/ Crash(t)
         \/ /\ f.op \in {"user_to_host", "user_to_card"}
            /\ addr < VmaStart
            /\ Upd(t, [f EXCEPT !.pc = AfterProbe(f)])
            /\ UNCHANGED oops
    ELSE /\ pte[VIndex(addr)].k \in {"host", "dev"}
         /\ IF pte[VIndex(addr)].k = "dev"
            THEN IF zdd[pte[VIndex(addr)].pg] \in InfoIds
                 THEN /\ Upd(t, [CpuFaultFrame(f, addr) EXCEPT !.nested = TRUE])
                      /\ UNCHANGED oops
                 ELSE Crash(t)
            ELSE /\ Upd(t, [f EXCEPT !.pc = AfterProbe(f)])
                 /\ UNCHANGED oops

\* is_thp after the nested fault returned: a failed fault leaves pages[0]
\* unset, and is_transparent_hugepage / put_page then use it
is_thp_return(t) ==
    /\ ~oops
    /\ fr[t].pc = "thp_ret"
    /\ IF fr[t].ret # "OK"
       THEN Crash(t)
       ELSE is_thp(t, [NoFrame EXCEPT !.op = fr[t].op, !.in = fr[t].in],
                   fr[t].in.vaddr)
    /\ UNCHANGED <<memvars, tlbvars, allocvars, resvars, lockvars, hwvars,
                   envvars>>

\* --------------------------------------------------------- mmu_handler
\* lines 60-74: the args record, then the probe of the faulting address
mmu_handler_hmm(t, vaddr, len, ctid, stream) ==
    LET f == [NoFrame EXCEPT !.op = "mmu_handler",
                !.in = [vaddr |-> vaddr, len |-> len, ctid |-> ctid,
                        stream |-> stream]]
    IN  /\ ~oops
        /\ fr[t].pc = "idle"
        /\ \E outcome \in Budget({"ok", "nomem"}) :
            /\ faults' = Charge(outcome)
            /\ IF outcome = "nomem"
               THEN /\ Upd(t, [f EXCEPT !.pc = "done", !.ret = "ENOMEM"])
                    /\ UNCHANGED oops
               ELSE is_thp(t, f, vaddr)
        /\ UNCHANGED <<memvars, tlbvars, allocvars, resvars, lockvars, hwvars,
                       seqvars>>

\* lines 77-119: reference and read lock, page count, dispatch
mmu_handler_dispatch(t) ==
    LET f == fr[t]
        huge == thp
        psz == pg_inc_of(huge) * PAGE_SIZE
        first == Shr((f.in.vaddr \div psz) * psz, PAGE_SHIFT)
        last == Shr(((f.in.vaddr + f.in.len - 1) \div psz) * psz, PAGE_SHIFT)
        n == last - first + 1
        g == [f EXCEPT !.mm = TRUE, !.ctid = f.in.ctid,
                       !.vaddr = Shl(first, PAGE_SHIFT),
                       !.hugepages = huge,
                       !.n_pages = IF huge THEN n * n_pages_in_huge ELSE n]
    IN  /\ ~oops
        /\ f.pc = "h_disp"
        /\ Upd(t, IF f.in.stream = HOST_ACCESS
                  THEN [g EXCEPT !.pc = "mh_setup", !.fn = "to_host"]
                  ELSE IF f.in.stream = CARD_ACCESS
                  THEN [g EXCEPT !.pc = "mc_setup", !.fn = "to_card"]
                  ELSE [g EXCEPT !.pc = "h_exit", !.ret = "EINVAL"])
        /\ UNCHANGED <<memvars, tlbvars, allocvars, resvars, lockvars,
                       hwvars, envvars, oops>>

\* lines 121-125
mmu_handler_exit(t) ==
    /\ ~oops
    /\ fr[t].pc = "h_exit"
    /\ Upd(t, [fr[t] EXCEPT !.pc = "done", !.mm = FALSE])
    /\ UNCHANGED <<memvars, tlbvars, allocvars, resvars, lockvars, hwvars,
                   envvars, oops>>

\* ------------------------------------------------- user_migrate_to_*
user_migrate(t, op, vaddr, n_pages, ctid) ==
    /\ ~oops
    /\ fr[t].pc = "idle"
    /\ is_thp(t, [NoFrame EXCEPT !.op = op,
                    !.in = [vaddr |-> vaddr, len |-> n_pages, ctid |-> ctid,
                            stream |-> "none"]], vaddr)
    /\ UNCHANGED <<memvars, tlbvars, allocvars, resvars, lockvars, hwvars,
                   envvars>>

user_migrate_to_host(t, vaddr, n_pages, ctid) ==
    user_migrate(t, "user_to_host", vaddr, n_pages, ctid)

user_migrate_to_card(t, vaddr, n_pages, ctid) ==
    user_migrate(t, "user_to_card", vaddr, n_pages, ctid)

\* mutex_lock(&d->mmu_lock), mmget, mmap_read_lock, then the migration
user_migrate_lock(t) ==
    LET f == fr[t]
    IN  /\ ~oops
        /\ f.pc = "u_lock"
        /\ mmu_lock = 0
        /\ mmu_lock' = t
        /\ Upd(t, [f EXCEPT !.mm = TRUE, !.ctid = f.in.ctid,
                     !.vaddr = f.in.vaddr, !.n_pages = f.in.len,
                     !.hugepages = thp,
                     !.fn = IF f.op = "user_to_host" THEN "to_host"
                            ELSE "to_card",
                     !.pc = IF f.op = "user_to_host" THEN "mh_setup"
                            ELSE "mc_setup"])
        /\ UNCHANGED <<memvars, tlbvars, allocvars, resvars, dma_lock, page_lock,
                       hwvars, envvars, oops>>

user_migrate_unlock(t) ==
    /\ ~oops
    /\ fr[t].pc = "u_exit"
    /\ mmu_lock' = 0
    /\ Upd(t, [fr[t] EXCEPT !.pc = "done", !.mm = FALSE])
    /\ UNCHANGED <<memvars, tlbvars, allocvars, resvars, dma_lock, page_lock, hwvars,
                   envvars, oops>>

\* the caller has the result; the frame is dropped
Return(t) ==
    /\ ~oops
    /\ fr[t].pc = "done"
    /\ Upd(t, NoFrame)
    /\ UNCHANGED <<memvars, tlbvars, allocvars, resvars, lockvars, hwvars,
                   envvars, oops>>

\* ------------------------------------------- steps the paths share
\* an area lookup that finds an area for every range
find_vma_intersection_any(start, end) == TRUE

\* find_vma_intersection(mm, start, end): whether an area meets [start, end)
find_vma_intersection(start, end) == ~(end <= VmaStart \/ start >= VmaEnd)

\* Array allocation, find_vma_intersection and migrate_vma_setup.  errno
\* is what a failed array allocation returns, check_vma whether the path
\* looks the area up itself.
vma_setup(t, pc, select, next, errno, check_vma) ==
    LET f == fr[t]
        n == f.n_pages
        end == f.vaddr + n * PAGE_SIZE
        v0 == VIndex(f.vaddr)
        g == [f EXCEPT !.snap = Snap]
    IN  /\ ~oops
        /\ f.pc = pc
        /\ \E outcome \in Budget({"ok", "nomem"}) :
            /\ faults' = Charge(outcome)
            /\ IF outcome = "nomem"
               THEN /\ Upd(t, [g EXCEPT !.pc = RetPc(f), !.ret = errno])
                    /\ UNCHANGED pte
               ELSE IF check_vma /\ ~find_vma_intersection(f.vaddr, end)
               THEN /\ Upd(t, [g EXCEPT !.pc = RetPc(f), !.ret = "EFAULT"])
                    /\ UNCHANGED pte
               ELSE IF f.vaddr < VmaStart \/ end > VmaEnd \/ n = 0
               THEN /\ Upd(t, [g EXCEPT !.pc = RetPc(f),
                                        !.ret = IF check_vma THEN "EINVAL"
                                                ELSE errno])
                    /\ UNCHANGED pte
               ELSE LET src == migrate_vma_setup_src(pte, v0, n, select)
                    IN  /\ pte' = migrate_vma_setup_pte(pte, v0, n, select)
                        /\ Upd(t, [g EXCEPT
                               !.pc = next, !.src = src, !.npages = n,
                               !.cpages = Cardinality({i \in 1 .. n : src[i]}),
                               !.spages = Zeros(n), !.dpages = Zeros(n),
                               !.dst = Zeros(n), !.i = 0, !.staged = "staged"])
        /\ UNCHANGED <<host_free, page_locked, thp, tlbvars, allocvars,
                       resvars, lockvars, hwvars, seqvars, oops>>

\* tlb_unmap_hmm(d, start >> PAGE_SHIFT, mig_args.npages, hpid, hugepages)
invalidate(t, pc, next) ==
    LET f == fr[t]
        va == Shr(f.vaddr, PAGE_SHIFT)
        owed == n_last(invalidate_cmds(va, f.npages, f.hugepages))
    IN  /\ ~oops
        /\ f.pc = pc
        /\ hw_pending["invldt"] + owed <= MaxHwPending
        /\ tlb' = tlb_unmap_hmm(tlb, va, f.npages, f.hugepages)
        /\ hw_pending' = [hw_pending EXCEPT !["invldt"] = @ + owed]
        /\ Upd(t, [f EXCEPT !.pc = next])
        /\ UNCHANGED <<memvars, allocvars, resvars, lockvars, wait_flag,
                       envvars, oops>>

\* wait_event_interruptible on wait_invldt, then the flag is cleared
wait_invldt(t, pc, next) ==
    /\ ~oops
    /\ fr[t].pc = pc
    /\ wait_flag["invldt"] = FLAG_SET
    /\ wait_flag' = [wait_flag EXCEPT !["invldt"] = FLAG_CLR]
    /\ Upd(t, [fr[t] EXCEPT !.pc = next])
    /\ UNCHANGED <<memvars, tlbvars, allocvars, resvars, lockvars,
                   hw_pending, envvars, oops>>

\* trigger_dma_* submitted without the class lock being free
dma_submit_unlocked(t, pc, next, class) ==
    /\ ~oops
    /\ fr[t].pc = pc
    /\ hw_pending[class] < MaxHwPending
    /\ dma_lock' = [dma_lock EXCEPT ![class] = t]
    /\ hw_pending' = [hw_pending EXCEPT ![class] = @ + 1]
    /\ Upd(t, [fr[t] EXCEPT !.pc = next])
    /\ UNCHANGED <<memvars, tlbvars, allocvars, resvars, mmu_lock, page_lock, wait_flag,
                   envvars, oops>>

\* mutex_lock of the class lock and trigger_dma_*
dma_submit(t, pc, next, class) ==
    /\ ~oops
    /\ fr[t].pc = pc
    /\ dma_lock[class] = 0
    /\ hw_pending[class] < MaxHwPending
    /\ dma_lock' = [dma_lock EXCEPT ![class] = t]
    /\ hw_pending' = [hw_pending EXCEPT ![class] = @ + 1]
    /\ Upd(t, [fr[t] EXCEPT !.pc = next])
    /\ UNCHANGED <<memvars, tlbvars, allocvars, resvars, mmu_lock, page_lock, wait_flag,
                   envvars, oops>>

\* the wait for the class flag, its reset and mutex_unlock
dma_wait(t, pc, next, class) ==
    /\ ~oops
    /\ fr[t].pc = pc
    /\ wait_flag[class] = FLAG_SET
    /\ wait_flag' = [wait_flag EXCEPT ![class] = FLAG_CLR]
    /\ dma_lock' = [dma_lock EXCEPT ![class] = 0]
    /\ Upd(t, [fr[t] EXCEPT !.pc = next])
    /\ UNCHANGED <<memvars, tlbvars, allocvars, resvars, mmu_lock, page_lock,
                   hw_pending, envvars, oops>>

\* migrate_vma_pages and migrate_vma_finalize
commit(t, pc, next, ret) ==
    LET f == fr[t]
        M == migrate_vma_finalize(Mem, VIndex(f.vaddr), f.src, f.dst, 1)
    IN  /\ ~oops
        /\ f.pc = pc
        /\ pte' = M.pte
        /\ host_free' = M.host_free
        /\ page_locked' = M.locked
        /\ free_pages' = M.A.head
        /\ zdd' = M.A.zdd
        /\ mem_sections' = M.A.sections
        /\ info' = Forget(Res, M.A.zdd).info
        /\ Upd(t, [f EXCEPT !.pc = next, !.staged = "committed",
                            !.ret = ret])
        /\ UNCHANGED <<thp, tlbvars, migrated_pages, card_used,
                       card_bad_free, lockvars, hwvars, envvars, oops>>

\* the program points that wait for the completion flag k
WaitPcs(k) ==
    IF k = "invldt" THEN {"mc_wait", "mh_wait", "cf_wait"}
    ELSE IF k = "sync" THEN {"mh_dma_wait", "cf_dma_wait"}
    ELSE {"mc_dma_wait"}

\* the accelerator raises a completion it owes (invalidation, sync or
\* offload DMA).  Only a waiter reads the flag, so while an operation runs
\* the completion is taken at a moment one waits: an earlier arrival leads
\* to the same states.
hw_complete(k) ==
    /\ ~oops
    /\ hw_pending[k] > 0
    /\ \/ \E t \in Threads : fr[t].pc \in WaitPcs(k)
       \/ \A t \in Threads : fr[t].pc = "idle"
    /\ hw_pending' = [hw_pending EXCEPT ![k] = @ - 1]
    /\ wait_flag' = [wait_flag EXCEPT ![k] = FLAG_SET]
    /\ UNCHANGED <<memvars, tlbvars, allocvars, resvars, lockvars,
                   envvars, oops, fr>>

\* ------------------------------------------------ fpga_migrate_to_card
fpga_migrate_to_card_setup(t) ==
    vma_setup(t, "mc_setup", "system", "mc_unmap", "ENOMEM", TRUE)

fpga_migrate_to_card_invalidate(t) == invalidate(t, "mc_unmap", "mc_stage")

\* one iteration of the loop of lines 982-1008, or its exit
fpga_migrate_to_card_stage(t) ==
    LET f == fr[t]
        i == f.i
        v == VIndex(f.vaddr) + i
    IN  /\ ~oops
        /\ f.pc = "mc_stage"
        /\ IF i >= f.npages
           THEN /\ Upd(t, [f EXCEPT !.pc = IF f.dpages_fail THEN "mc_undo"
                                           ELSE "mc_zone"])
                /\ UNCHANGED <<allocvars, page_locked, oops, faults>>
           ELSE IF ~f.src[i + 1]
           THEN /\ Upd(t, [f EXCEPT
                        !.dpages[i + 1] =
                            host_ptw(pte, f.vaddr + Shl(i, PAGE_SHIFT)),
                        !.i = i + 1])
                /\ UNCHANGED <<allocvars, page_locked, oops, faults>>
           ELSE \E outcome \in GrowChoices(Alloc) :
                LET r == alloc_private_page(Alloc, outcome)
                    g == [f EXCEPT !.spages[i + 1] = pte[v].pg, !.i = i + 1]
                IN  IF r.crash
                    THEN /\ Crash(t)
                         /\ faults' = GrowCharge(Alloc, outcome)
                         /\ UNCHANGED <<allocvars, page_locked>>
                    ELSE /\ free_pages' = r.A.head
                         /\ faults' = GrowCharge(Alloc, outcome)
                         /\ zdd' = r.A.zdd
                         /\ mem_sections' = r.A.sections
                         /\ UNCHANGED oops
                         /\ IF r.page = NULL
                            THEN /\ Upd(t, [g EXCEPT !.dpages_fail = TRUE])
                                 /\ UNCHANGED page_locked
                            ELSE /\ Upd(t, [g EXCEPT
                                        !.dpages[i + 1] = r.page,
                                        !.dst[i + 1] = r.page])
                                 /\ page_locked' = page_locked \cup {r.page}
        /\ UNCHANGED <<pte, host_free, thp, tlbvars, resvars, lockvars,
                       hwvars, seqvars>>

\* the undo loop of lines 1015-1024 on [A, locked, dst]
RECURSIVE card_undo_loop(_, _, _)
card_undo_loop(U, dpages, i) ==
    IF i > Len(dpages) THEN U
    ELSE IF dpages[i] = NULL \/ U.dst[i] = 0
    THEN card_undo_loop(U, dpages, i + 1)
    ELSE card_undo_loop(
            [U EXCEPT !.locked = @ \ {dpages[i]},
                      !.A = cpu_free_private_page(put_page(@, dpages[i]),
                                                  dpages[i]),
                      !.dst[i] = 0],
            dpages, i + 1)

\* lines 1010-1029: undo, then the staged migration is given back
fpga_migrate_to_card_undo(t) ==
    LET f == fr[t]
        U == card_undo_loop([A |-> Alloc, locked |-> page_locked,
                             dst |-> f.dst], f.dpages, 1)
        M == migrate_vma_finalize([Mem EXCEPT !.A = U.A, !.locked = U.locked],
                                  VIndex(f.vaddr), f.src, U.dst, 1)
    IN  /\ ~oops
        /\ f.pc = "mc_undo"
        /\ pte' = M.pte
        /\ host_free' = M.host_free
        /\ page_locked' = M.locked
        /\ free_pages' = M.A.head
        /\ zdd' = M.A.zdd
        /\ mem_sections' = M.A.sections
        /\ Upd(t, [f EXCEPT !.pc = RetPc(f), !.ret = "ENOMEM", !.dst = U.dst,
                            !.cpages = 0, !.staged = "aborted"])
        /\ UNCHANGED <<thp, tlbvars, resvars, lockvars, hwvars, envvars,
                       oops>>

\* the zone setup loop of lines 1061-1075 on Z = [R, zdd, crash]; j runs
\* off the arrays when mig_args.dst[i] is 0
RECURSIVE zone_setup(_, _, _, _, _)
zone_setup(Z, f, addrs, i, j) ==
    IF i >= f.cpages \/ Z.crash THEN Z
    ELSE LET stop == {k \in j .. (f.npages - 1) :
                        ~(f.dpages[k + 1] = NULL \/ f.dst[i + 1] = 0)}
         IN  IF stop = {}
             THEN [Z EXCEPT !.crash = TRUE]
             ELSE zone_setup(
                    [Z EXCEPT
                        !.zdd[f.dpages[Min(stop) + 1]] = FreshInfo(Z.R),
                        !.R = list_add_info(@, f.ctid, f.hugepages,
                                            addrs[i + 1])],
                    f, addrs, i + 1, Min(stop))

\* card_address[i] of lines 1082-1084: the record behind dpages[i]
card_address_of(z, inf, page) ==
    IF page = NULL THEN 0
    ELSE IF z[page] \in InfoIds THEN inf[z[page]].card_address
    ELSE GARBAGE

\* lines 1031-1085
fpga_migrate_to_card_zone(t) ==
    LET f == fr[t]
        n == f.npages
    IN  /\ ~oops
        /\ f.pc = "mc_zone"
        /\ \E outcome \in Budget({"ok", "nomem", "nocard"}) :
            /\ faults' = Charge(outcome)
            /\ IF outcome = "nomem" \/
                  (f.cpages > 0 /\
                       (outcome = "nocard" \/
                        Cardinality(CardAddrs \ card_used) < f.cpages))
               THEN /\ Upd(t, [f EXCEPT !.pc = RetPc(f), !.ret = "ENOMEM"])
                    /\ UNCHANGED <<zdd, resvars, oops>>
               ELSE LET c == alloc_card_memory(Res, f.cpages)
                        Z == zone_setup([R |-> c.R, zdd |-> zdd,
                                         crash |-> FALSE], f, c.addrs, 0, 0)
                        nullrec == \E i \in 1 .. n :
                                       f.dpages[i] # NULL /\ Z.zdd[f.dpages[i]] = NULL
                    IN  /\ info' = Z.R.info
                        /\ migrated_pages' = Z.R.lists
                        /\ card_used' = Z.R.used
                        /\ card_bad_free' = Z.R.bad
                        /\ zdd' = Z.zdd
                        /\ IF Z.crash \/ nullrec
                           THEN Crash(t)
                           ELSE /\ UNCHANGED oops
                                /\ Upd(t, [f EXCEPT
                                       !.pc = "mc_wait", !.calloc = c.addrs,
                                       !.host_address =
                                           [i \in 1 .. n |-> f.spages[i]],
                                       !.card_address =
                                           [i \in 1 .. n |->
                                               card_address_of(Z.zdd, Z.R.info,
                                                               f.dpages[i])]])
        /\ UNCHANGED <<memvars, tlbvars, free_pages, mem_sections, lockvars,
                       hwvars, seqvars>>

\* the wait that goes on to the commit without the DMA
fpga_migrate_to_card_wait_no_dma(t) == wait_invldt(t, "mc_wait", "mc_commit")

fpga_migrate_to_card_wait(t) ==
    wait_invldt(t, "mc_wait",
                IF fr[t].cpages > 0 THEN "mc_dma" ELSE "mc_commit")

fpga_migrate_to_card_dma(t) ==
    dma_submit(t, "mc_dma", "mc_dma_wait", "offload")

fpga_migrate_to_card_dma_wait(t) ==
    dma_wait(t, "mc_dma_wait", "mc_commit", "offload")

fpga_migrate_to_card_commit(t) == commit(t, "mc_commit", "mc_map", fr[t].ret)

\* line 1120
fpga_migrate_to_card_map(t) ==
    LET f == fr[t]
    IN  /\ ~oops
        /\ f.pc = "mc_map"
        /\ tlb' = tlb_map_hmm(tlb, Shr(f.vaddr, PAGE_SHIFT), f.card_address,
                              f.npages, CARD_ACCESS, f.ctid, f.hugepages)
        /\ Upd(t, [f EXCEPT !.pc = RetPc(f)])
        /\ UNCHANGED <<memvars, allocvars, resvars, lockvars, hwvars,
                       envvars, oops>>

\* ------------------------------------------------ fpga_migrate_to_host
fpga_migrate_to_host_setup(t) ==
    vma_setup(t, "mh_setup", "device", "mh_unmap", "ENOMEM", TRUE)

fpga_migrate_to_host_invalidate(t) == invalidate(t, "mh_unmap", "mh_stage")

\* one iteration of the loop of lines 736-775, or its exit.  The inner
\* loop of the huge case increments i instead of j and never ends.
fpga_migrate_to_host_stage(t) ==
    LET f == fr[t]
        i == f.i
        v == VIndex(f.vaddr) + i
        pg_inc == pg_inc_of(f.hugepages)
    IN  /\ ~oops
        /\ f.pc = "mh_stage"
        /\ IF i >= f.npages
           THEN /\ Upd(t, [f EXCEPT !.pc = IF f.dpages_fail THEN "mh_undo"
                                           ELSE "mh_addr"])
                /\ UNCHANGED <<host_free, page_locked, oops, faults>>
           ELSE IF ~f.src[i + 1]
           THEN /\ Upd(t, [f EXCEPT
                        !.dpages[i + 1] =
                            host_ptw(pte, f.vaddr + Shl(i, PAGE_SHIFT)),
                        !.i = i + pg_inc])
                /\ UNCHANGED <<host_free, page_locked, oops, faults>>
           ELSE \E got \in HostGot(HostRun(host_free, 1)) :
                IF ~got
                THEN /\ faults' = HostCharge(HostRun(host_free, 1), got)
                     /\ Upd(t, [f EXCEPT
                            !.spages[i + 1] =
                                IF f.hugepages THEN @ ELSE pte[v].pg,
                            !.dpages_fail = TRUE, !.i = i + pg_inc])
                     /\ UNCHANGED <<host_free, page_locked, oops>>
                ELSE IF f.hugepages
                THEN /\ Crash(t)
                     /\ UNCHANGED <<host_free, page_locked, faults>>
                ELSE /\ UNCHANGED faults
                     /\ Upd(t, [f EXCEPT
                            !.spages[i + 1] = pte[v].pg,
                            !.dpages[i + 1] = Min(host_free),
                            !.dst[i + 1] = Min(host_free),
                            !.i = i + pg_inc])
                     /\ host_free' = host_free \ {Min(host_free)}
                     /\ page_locked' = page_locked \cup {Min(host_free)}
                     /\ UNCHANGED oops
        /\ UNCHANGED <<pte, thp, tlbvars, allocvars, resvars, lockvars,
                       hwvars, seqvars>>

\* lines 777-796.  A staged destination here is a host page: put_page
\* gives it back to the host, and cpu_free_private_page then reads its
\* pgmap, which a host page does not have.
fpga_migrate_to_host_undo(t) ==
    LET f == fr[t]
        staged == {i \in 1 .. f.n_pages :
                        i <= Len(f.dpages) /\ f.dpages[i] # NULL /\ f.dst[i] # 0}
        M == migrate_vma_finalize(Mem, VIndex(f.vaddr), f.src,
                                  Zeros(Len(f.src)), 1)
    IN  /\ ~oops
        /\ f.pc = "mh_undo"
        /\ IF staged # {}
           THEN /\ Crash(t)
                /\ page_locked' = page_locked \ {f.dpages[Min(staged)]}
                /\ host_free' = host_free \cup {f.dpages[Min(staged)]}
                /\ UNCHANGED <<pte, allocvars>>
           ELSE /\ pte' = M.pte
                /\ host_free' = M.host_free
                /\ page_locked' = M.locked
                /\ free_pages' = M.A.head
                /\ zdd' = M.A.zdd
                /\ mem_sections' = M.A.sections
                /\ Upd(t, [f EXCEPT !.pc = RetPc(f), !.ret = "ENOMEM",
                                    !.cpages = 0, !.staged = "aborted"])
                /\ UNCHANGED oops
        /\ UNCHANGED <<thp, tlbvars, resvars, lockvars, hwvars, envvars>>

\* the card-memory release loop of lines 830-835 (and 522-527) on
\* X = [R, calloc, poison]: list_del of an entry that is on no list meets
\* the list poison
RECURSIVE release_loop(_, _, _, _)
release_loop(X, spages, z, i) ==
    IF i > Len(spages) THEN X
    ELSE IF spages[i] = NULL \/ z[spages[i]] \notin InfoIds
    THEN release_loop(X, spages, z, i + 1)
    ELSE LET id == z[spages[i]]
         IN  release_loop(
                [R |-> list_del(X.R, id),
                 calloc |-> Append(X.calloc, X.R.info[id].card_address),
                 poison |-> X.poison \/ ~X.R.info[id].linked],
                spages, z, i + 1)

\* lines 798-838: the address arrays and the release of the card memory.
\* A poisoned list_del either faults or, with list debugging, is skipped.
host_addresses(t, pc, next, through_zone) ==
    LET f == fr[t]
        n == f.npages
        X == release_loop([R |-> Res, calloc |-> <<>>, poison |-> FALSE],
                          f.spages, zdd, 1)
        R2 == IF f.cpages > 0 THEN free_card_memory(X.R, X.calloc) ELSE Res
        nullrec == \E i \in 1 .. n :
                        f.spages[i] # NULL /\ zdd[f.spages[i]] = NULL
    IN  /\ ~oops
        /\ f.pc = pc
        /\ \E outcome \in Budget({"ok", "nomem", "fault"}) :
            /\ faults' = Charge(outcome)
            /\ IF outcome = "nomem"
               THEN /\ Upd(t, [f EXCEPT !.pc = RetPc(f), !.ret = "ENOMEM"])
                    /\ UNCHANGED <<resvars, oops>>
               ELSE IF nullrec \/ (f.cpages > 0 /\ X.poison /\ outcome = "fault")
               THEN /\ Crash(t)
                    /\ UNCHANGED resvars
               ELSE /\ info' = R2.info
                    /\ migrated_pages' = R2.lists
                    /\ card_used' = R2.used
                    /\ card_bad_free' = R2.bad
                    /\ UNCHANGED oops
                    /\ Upd(t, [f EXCEPT
                           !.pc = next,
                           !.calloc = IF f.cpages > 0 THEN X.calloc ELSE <<>>,
                           !.host_address =
                               [i \in 1 .. n |->
                                   IF f.spages[i] = NULL THEN 0
                                   ELSE IF through_zone
                                   THEN card_address_of(zdd, info, f.spages[i])
                                   ELSE GARBAGE],
                           !.card_address = [i \in 1 .. n |-> f.dpages[i]]])
        /\ UNCHANGED <<memvars, tlbvars, allocvars, lockvars, hwvars,
                       seqvars>>

\* host_address[i] of line 817 reads the record of the source page
fpga_migrate_to_host_addresses(t) ==
    host_addresses(t, "mh_addr", "mh_wait", TRUE)

fpga_migrate_to_host_wait(t) ==
    wait_invldt(t, "mh_wait",
                IF fr[t].cpages > 0 THEN "mh_dma" ELSE "mh_commit")

fpga_migrate_to_host_dma(t) == dma_submit(t, "mh_dma", "mh_dma_wait", "sync")

fpga_migrate_to_host_dma_wait(t) ==
    dma_wait(t, "mh_dma_wait", "mh_commit", "sync")

fpga_migrate_to_host_commit(t) == commit(t, "mh_commit", "mh_map", fr[t].ret)

\* line 873
fpga_migrate_to_host_map(t) ==
    LET f == fr[t]
    IN  /\ ~oops
        /\ f.pc = "mh_map"
        /\ tlb' = tlb_map_hmm(tlb, Shr(f.vaddr, PAGE_SHIFT), f.host_address,
                              f.npages, STRM_ACCESS, f.ctid, f.hugepages)
        /\ Upd(t, [f EXCEPT !.pc = RetPc(f)])
        /\ UNCHANGED <<memvars, allocvars, resvars, lockvars, hwvars,
                       envvars, oops>>

\* ------------------------------------------------- cpu_migrate_to_host
\* a CPU access to a device-private page
cpu_migrate_to_host(t, addr) ==
    /\ ~oops
    /\ fr[t].pc = "idle"
    /\ InVma(addr)
    /\ pte[VIndex(addr)].k = "dev"
    /\ IF zdd[pte[VIndex(addr)].pg] \in InfoIds
       THEN /\ Upd(t, CpuFaultFrame([NoFrame EXCEPT !.op = "cpu_fault"], addr))
            /\ UNCHANGED oops
       ELSE Crash(t)
    /\ UNCHANGED <<memvars, tlbvars, allocvars, resvars, lockvars, hwvars,
                   envvars>>

cpu_migrate_to_host_setup(t) ==
    vma_setup(t, "cf_setup", "device", "cf_unmap", "SIGBUS", FALSE)

cpu_migrate_to_host_invalidate(t) == invalidate(t, "cf_unmap", "cf_stage")

\* lines 432-467: only the first page is asked whether it migrates
cpu_migrate_to_host_stage(t) ==
    LET f == fr[t]
        v0 == VIndex(f.vaddr)
        n == f.n_pages
    IN  /\ ~oops
        /\ f.pc = "cf_stage"
        /\ IF ~f.src[1]
           THEN /\ Upd(t, [f EXCEPT !.pc = RetPc(f)])
                /\ UNCHANGED <<host_free, page_locked, faults>>
           ELSE \E got \in HostGot(HostRun(host_free, n)) :
                IF ~got
                THEN /\ faults' = HostCharge(HostRun(host_free, n), got)
                     /\ Upd(t, [f EXCEPT
                            !.spages[1] = IF f.hugepages THEN @ ELSE pte[v0].pg,
                            !.dpages_fail = TRUE, !.pc = "cf_undo"])
                     /\ UNCHANGED <<host_free, page_locked>>
                ELSE /\ UNCHANGED faults
                     /\ Upd(t, [f EXCEPT
                            !.spages = [i \in 1 .. n |-> pte[v0 + i - 1].pg],
                            !.dpages = [i \in 1 .. n |-> Min(host_free) + i - 1],
                            !.dst = [i \in 1 .. n |-> Min(host_free) + i - 1],
                            !.pc = "cf_addr"])
                     /\ host_free' = host_free \ HostRun(host_free, n)
                     /\ page_locked' = page_locked \cup HostRun(host_free, n)
        /\ UNCHANGED <<pte, thp, tlbvars, allocvars, resvars, lockvars,
                       hwvars, seqvars, oops>>

\* lines 469-488: no destination page exists when the allocation failed
cpu_migrate_to_host_undo(t) ==
    LET f == fr[t]
        M == migrate_vma_finalize(Mem, VIndex(f.vaddr), f.src,
                                  Zeros(Len(f.src)), 1)
    IN  /\ ~oops
        /\ f.pc = "cf_undo"
        /\ pte' = M.pte
        /\ Upd(t, [f EXCEPT !.pc = RetPc(f), !.ret = "ENOMEM",
                            !.cpages = 0, !.staged = "aborted"])
        /\ UNCHANGED <<host_free, page_locked, thp, tlbvars, allocvars,
                       resvars, lockvars, hwvars, envvars, oops>>

\* lines 490-530; host_address[i] of line 509 reads the struct page itself
\* as a record
cpu_migrate_to_host_addresses(t) ==
    host_addresses(t, "cf_addr", "cf_wait", FALSE)

cpu_migrate_to_host_wait(t) == wait_invldt(t, "cf_wait", "cf_dma")

cpu_migrate_to_host_dma(t) == dma_submit(t, "cf_dma", "cf_dma_wait", "sync")

cpu_migrate_to_host_dma_wait(t) ==
    dma_wait(t, "cf_dma_wait", "cf_commit", "sync")

cpu_migrate_to_host_commit(t) ==
    commit(t, "cf_commit", RetPc(fr[t]), fr[t].ret)

\* ------------------------------------------------------- free_card_mem
\* the walk of lines 1240-1244 over the list of ctid
RECURSIVE free_card_walk(_, _)
free_card_walk(R, ids) ==
    IF ids = <<>> THEN R
    ELSE free_card_walk(
            list_del(free_card_memory(R, <<R.info[Head(ids)].card_address>>),
                     Head(ids)),
            Tail(ids))

free_card_mem(t, ctid) ==
    LET R == Forget(free_card_walk(Res, migrated_pages[ctid]), zdd)
    IN  /\ ~oops
        /\ fr[t].pc = "idle"
        /\ info' = R.info
        /\ migrated_pages' = R.lists
        /\ card_used' = R.used
        /\ card_bad_free' = R.bad
        /\ Upd(t, [NoFrame EXCEPT !.op = "free_card_mem", !.pc = "done",
                                  !.ctid = ctid, !.snap = Snap])
        /\ UNCHANGED <<memvars, tlbvars, allocvars, lockvars, hwvars,
                       envvars, oops>>

\* ---------------------------------------------- cyt_interval_invalidate
\* range is [start, end) in bytes; migrate_own is an MMU_NOTIFY_MIGRATE
\* event owned by this device
cyt_interval_invalidate(t, start, end, migrate_own, blockable) ==
    /\ ~oops
    /\ fr[t].pc = "idle"
    /\ cur_seq < MaxSeq
    /\ cur_seq' = cur_seq + 1
    /\ is_thp(t, [NoFrame EXCEPT !.op = "notifier",
                    !.in = [vaddr |-> start, len |-> end - start,
                            ctid |-> IF blockable THEN 1 ELSE 0,
                            stream |-> IF migrate_own THEN "own" ELSE "other"]],
              start)
    /\ UNCHANGED <<memvars, tlbvars, allocvars, resvars, lockvars, hwvars,
                   notifier_seq, jiffies, faults>>

\* the callback returns to the memory manager, which keeps its result
NotifierReturn(ret) == [NoFrame EXCEPT !.op = "notifier", !.ret = ret]

\* lines 158-166: the event check and the lock
cyt_interval_invalidate_lock(t) ==
    LET f == fr[t]
    IN  /\ ~oops
        /\ f.pc = "n_check"
        /\ IF f.in.stream = "own"
           THEN /\ Upd(t, NotifierReturn("TRUE"))
                /\ UNCHANGED mmu_lock
           ELSE IF mmu_lock = 0
           THEN /\ mmu_lock' = t
                /\ Upd(t, [f EXCEPT !.pc = "n_unmap"])
           ELSE /\ f.in.ctid = 0
                /\ Upd(t, NotifierReturn("FALSE"))
                /\ UNCHANGED mmu_lock
        /\ UNCHANGED <<memvars, tlbvars, allocvars, resvars, dma_lock, page_lock, hwvars,
                       envvars, oops>>

\* lines 168-180: the range in pages, the teardown, the unlock
cyt_interval_invalidate_unmap(t) ==
    LET f == fr[t]
        huge == thp
        psz == pg_inc_of(huge) * PAGE_SIZE
        range_start == f.in.vaddr
        range_end == f.in.vaddr + f.in.len
        start == (range_start \div psz) * psz
        end == ((range_end + psz - 1) \div psz) * psz
        first == Shr(start, PAGE_SHIFT)
        last == Shr(end, PAGE_SHIFT)
        n_pages == last - first
        va == Shl(start, PAGE_SHIFT)
        owed == n_last(invalidate_cmds(va, n_pages, huge))
    IN  /\ ~oops
        /\ f.pc = "n_unmap"
        /\ hw_pending["invldt"] + owed <= MaxHwPending
        /\ notifier_seq' = cur_seq
        /\ tlb' = tlb_unmap_hmm(tlb, va, n_pages, huge)
        /\ hw_pending' = [hw_pending EXCEPT !["invldt"] = @ + owed]
        /\ mmu_lock' = 0
        /\ Upd(t, NotifierReturn("TRUE"))
        /\ UNCHANGED <<memvars, allocvars, resvars, dma_lock, page_lock, wait_flag, oops,
                       cur_seq, jiffies, faults>>

\* ------------------------------------------------- fpga_do_host_fault
\* HMM_RANGE_DEFAULT_TIMEOUT in ticks of the clock
HMM_RANGE_DEFAULT_TIMEOUT == 2

\* a clock comparison that never sees the timeout pass
time_after_never(a, b) == FALSE

time_after(a, b) == a > b

\* hmm_range_fault on the range of frame f: 0 with the page numbers of the
\* range, -EBUSY when the walk has to be repeated, -EFAULT for a range that
\* is not all inside an area.  When the walk has to be repeated is up to
\* the host memory manager.
hmm_range_fault(f) ==
    LET pages == {f.vaddr + k * PAGE_SIZE : k \in 0 .. f.n_pages - 1}
    IN  IF \E a \in pages : ~InVma(a)
        THEN {[ret |-> "EFAULT", hmm_pfns |-> f.hmm_pfns]}
        ELSE {[ret |-> "EBUSY", hmm_pfns |-> f.hmm_pfns],
              [ret |-> "OK",
               hmm_pfns |-> [i \in 1 .. f.n_pages |->
                                pte[VIndex(f.vaddr) + i - 1].pg]]}

\* lines 273-310: the timeout, the notifier of the process (not is NULL
\* when the process has none), the array of page numbers
fpga_do_host_fault(t, vaddr, n_pages, ctid, not) ==
    LET f == [NoFrame EXCEPT !.op = "host_fault",
                !.in = [vaddr |-> vaddr, len |-> n_pages, ctid |-> ctid,
                        stream |-> "none"],
                !.vaddr = vaddr, !.n_pages = n_pages, !.ctid = ctid,
                !.hugepages = thp,
                !.timeout = jiffies + HMM_RANGE_DEFAULT_TIMEOUT]
    IN  /\ ~oops
        /\ fr[t].pc = "idle"
        /\ jiffies + HMM_RANGE_DEFAULT_TIMEOUT < MaxJiffies
        /\ IF not = NULL
           THEN /\ Upd(t, [f EXCEPT !.pc = "done", !.ret = "EINVAL"])
                /\ UNCHANGED faults
           ELSE \E outcome \in Budget({"ok", "nomem"}) :
                /\ faults' = Charge(outcome)
                /\ IF outcome = "nomem"
                   THEN Upd(t, [f EXCEPT !.pc = "done", !.ret = "ENOMEM"])
                   ELSE Upd(t, [f EXCEPT !.pc = "hf_loop",
                                         !.hmm_pfns = Zeros(n_pages)])
        /\ UNCHANGED <<memvars, tlbvars, allocvars, resvars, lockvars, hwvars,
                       seqvars, oops>>

\* lines 314-323: the head of the loop, then mmu_interval_read_begin
fpga_do_host_fault_loop(t) ==
    LET f == fr[t]
    IN  /\ ~oops
        /\ f.pc = "hf_loop"
        /\ IF time_after(jiffies, f.timeout)
           THEN Upd(t, [f EXCEPT !.pc = "done", !.ret = "EBUSY"])
           ELSE Upd(t, [f EXCEPT !.pc = "hf_fault",
                                 !.range_seq = notifier_seq])
        /\ UNCHANGED <<memvars, tlbvars, allocvars, resvars, lockvars, hwvars,
                       envvars, oops>>

\* lines 324-331
fpga_do_host_fault_fault(t) ==
    LET f == fr[t]
    IN  /\ ~oops
        /\ f.pc = "hf_fault"
        /\ \E r \in hmm_range_fault(f) :
            IF r.ret = "EBUSY"
            THEN Upd(t, [f EXCEPT !.pc = "hf_loop"])
            ELSE IF r.ret # "OK"
            THEN Upd(t, [f EXCEPT !.pc = "done", !.ret = r.ret])
            ELSE Upd(t, [f EXCEPT !.pc = "hf_retry", !.hmm_pfns = r.hmm_pfns])
        /\ UNCHANGED <<memvars, tlbvars, allocvars, resvars, lockvars, hwvars,
                       envvars, oops>>

\* lines 333-339: mmu_interval_read_retry
fpga_do_host_fault_retry(t) ==
    LET f == fr[t]
    IN  /\ ~oops
        /\ f.pc = "hf_retry"
        /\ Upd(t, [f EXCEPT !.pc = IF notifier_seq # f.range_seq
                                   THEN "hf_loop" ELSE "hf_map"])
        /\ UNCHANGED <<memvars, tlbvars, allocvars, resvars, lockvars, hwvars,
                       envvars, oops>>

\* lines 341-349: the stream mapping
fpga_do_host_fault_map(t) ==
    LET f == fr[t]
    IN  /\ ~oops
        /\ f.pc = "hf_map"
        /\ tlb' = tlb_map_hmm(tlb, Shl(f.vaddr, PAGE_SHIFT), f.hmm_pfns,
                              f.n_pages, STRM_ACCESS, f.ctid, f.hugepages)
        /\ Upd(t, [f EXCEPT !.pc = "done"])
        /\ UNCHANGED <<memvars, allocvars, resvars, lockvars, hwvars,
                       envvars, oops>>

\* the timer interrupt
Tick ==
    /\ jiffies < MaxJiffies
    /\ jiffies' = jiffies + 1
    /\ UNCHANGED <<memvars, tlbvars, allocvars, resvars, lockvars, hwvars,
                   cur_seq, notifier_seq, faults, oops, fr>>

\* ------------------------------------------------------ specification
InitState ==
    /\ pte = [v \in VPages |-> [k |-> "host", pg |-> v + 1]]
    /\ host_free = {}
    /\ tlb = [k \in {} |-> NULL]
    /\ free_pages = NULL
    /\ zdd = [p \in DevPages |-> NULL]
    /\ mem_sections = 0
    /\ info = [id \in InfoIds |-> NoInfo]
    /\ migrated_pages = [c \in Ctids |-> <<>>]
    /\ card_used = {}
    /\ card_bad_free = {}
    /\ page_locked = {}
    /\ mmu_lock = 0
    /\ dma_lock = [c \in {"sync", "offload"} |-> 0]
    /\ page_lock = [holder |-> 0, depth |-> [t \in Threads |-> 0]]
    /\ wait_flag = [k \in {"invldt", "sync", "offload"} |-> FLAG_CLR]
    /\ hw_pending = [k \in {"invldt", "sync", "offload"} |-> 0]
    /\ cur_seq = 0
    /\ notifier_seq = 0
    /\ jiffies = 0
    /\ thp \in BOOLEAN
    /\ oops = FALSE
    /\ fr = [t \in Threads |-> NoFrame]

\* every allocation succeeds
Init == InitState /\ faults = 0

\* up to MaxFaults allocations fail
InitFail == InitState /\ faults = MaxFaults

\* inputs
FaultAddrs == {PageAddr(v) : v \in VPages} \cup {VmaEnd, VmaStart - PAGE_SIZE}
FaultLens == {8, PAGE_SIZE + 8}
Streams == {HOST_ACCESS, CARD_ACCESS, BAD_ACCESS}

\* a migration begins in thread t for a context of C
Migrate(t, C) ==
    \/ \E a \in FaultAddrs, l \in FaultLens, c \in C, s \in Streams :
            mmu_handler_hmm(t, a, l, c, s)
    \/ \E a \in FaultAddrs, n \in 1 .. NumVPages, c \in C :
            user_migrate_to_host(t, a, n, c)
    \/ \E a \in FaultAddrs, n \in 1 .. NumVPages, c \in C :
            user_migrate_to_card(t, a, n, c)
    \/ \E v \in VPages : cpu_migrate_to_host(t, PageAddr(v))

\* a migration at the start of the area begins in thread t for context 0
MigrateOne(t) ==
    \/ \E l \in FaultLens, s \in Streams :
            mmu_handler_hmm(t, VmaStart, l, 0, s)
    \/ \E n \in 1 .. NumVPages : user_migrate_to_host(t, VmaStart, n, 0)
    \/ \E n \in 1 .. NumVPages : user_migrate_to_card(t, VmaStart, n, 0)
    \/ cpu_migrate_to_host(t, VmaStart)

\* an operation begins in thread t for a context of C
Start(t, C) == Migrate(t, C) \/ \E c \in C : free_card_mem(t, c)

\* the host memory manager announces a change of [start, end) in thread t
Notify(t) ==
    \E v \in VPages, n \in 1 .. NumVPages, own \in BOOLEAN, b \in BOOLEAN :
        /\ v + n <= NumVPages
        /\ cyt_interval_invalidate(t, PageAddr(v),
                                   PageAddr(v) + n * PAGE_SIZE, own, b)

\* the operation of thread t takes its next step
MigrateStep(t) ==
    \/ mmu_handler_dispatch(t)
    \/ mmu_handler_exit(t)
    \/ user_migrate_lock(t)
    \/ user_migrate_unlock(t)
    \/ fpga_migrate_to_card_setup(t)
    \/ fpga_migrate_to_card_invalidate(t)
    \/ fpga_migrate_to_card_stage(t)
    \/ fpga_migrate_to_card_zone(t)
    \/ fpga_migrate_to_card_wait(t)
    \/ fpga_migrate_to_card_dma(t)
    \/ fpga_migrate_to_card_dma_wait(t)
    \/ fpga_migrate_to_card_commit(t)
    \/ fpga_migrate_to_card_map(t)
    \/ fpga_migrate_to_host_setup(t)
    \/ fpga_migrate_to_host_invalidate(t)
    \/ fpga_migrate_to_host_stage(t)
    \/ fpga_migrate_to_host_addresses(t)
    \/ fpga_migrate_to_host_wait(t)
    \/ fpga_migrate_to_host_dma(t)
    \/ fpga_migrate_to_host_dma_wait(t)
    \/ fpga_migrate_to_host_commit(t)
    \/ fpga_migrate_to_host_map(t)

\* a CPU fault on a device-private page, taken by thread t itself or inside
\* its probe of an address, takes its next step
FaultStep(t) ==
    \/ is_thp_return(t)
    \/ cpu_migrate_to_host_setup(t)
    \/ cpu_migrate_to_host_invalidate(t)
    \/ cpu_migrate_to_host_stage(t)
    \/ cpu_migrate_to_host_addresses(t)
    \/ cpu_migrate_to_host_wait(t)
    \/ cpu_migrate_to_host_dma(t)
    \/ cpu_migrate_to_host_dma_wait(t)
    \/ cpu_migrate_to_host_commit(t)

Step(t) == MigrateStep(t) \/ FaultStep(t) \/ Return(t)

\* the rollback of a migration whose destination pages could not all be had
Undo(t) ==
    \/ fpga_migrate_to_card_undo(t)
    \/ fpga_migrate_to_host_undo(t)
    \/ cpu_migrate_to_host_undo(t)

\* the notifier callback of thread t takes its next step
NotifyStep(t) ==
    \/ cyt_interval_invalidate_lock(t)
    \/ cyt_interval_invalidate_unmap(t)

Hardware == \E k \in {"invldt", "sync", "offload"} : hw_complete(k)

\* one execution context: operations run one after the other
Next == Start(1, Ctids) \/ Step(1) \/ Hardware

Spec == Init /\ [][Next]_vars

\* the same with failing allocations, for one context
NextFail == Start(1, {0}) \/ Step(1) \/ Undo(1) \/ Hardware

SpecFail == InitFail /\ [][NextFail]_vars

\* a migration thread and the notifier of the host memory manager, which
\* runs in a thread of its own
NextNotif ==
    \/ MigrateOne(1)
    \/ Step(1)
    \/ Notify(2)
    \/ NotifyStep(2)
    \/ FaultStep(2)
    \/ Hardware

SpecNotif == Init /\ [][NextNotif]_vars

\* one thread and one context: the migrations alone
NextOne == Migrate(1, {0}) \/ Step(1) \/ Hardware

SpecOne == Init /\ [][NextOne]_vars

\* ------------------------------------- the TLB functions on their own
\* tlb_map_hmm and tlb_unmap_hmm applied to ranges of up to MaxTlbPages
\* pages at the page numbers of the area.  The frame keeps the kind of the
\* last call and, for tlb_unmap_hmm, the length of its range and, in i, the
\* number of entries it removed.  The address arrays have at most one
\* empty slot.
TlbAddrs == {PageNo(v) : v \in VPages}
TlbPaddrs(n) ==
    {[i \in 1 .. n |-> IF i = k THEN 0 ELSE CardBase + 1] : k \in 0 .. n}

TlbMap(t, vaddr, paddr, n_pages, huge) ==
    /\ tlb' = tlb_map_hmm(tlb, vaddr, paddr, n_pages, CARD_ACCESS, 0, huge)
    /\ Upd(t, [NoFrame EXCEPT !.op = "tlb_map"])
    /\ UNCHANGED <<memvars, allocvars, resvars, lockvars, hwvars, envvars,
                   oops>>

TlbUnmap(t, vaddr, n_pages, huge) ==
    LET T == tlb_unmap_hmm(tlb, vaddr, n_pages, huge)
        owed == n_last(invalidate_cmds(vaddr, n_pages, huge))
    IN  /\ hw_pending["invldt"] + owed <= MaxHwPending
        /\ tlb' = T
        /\ hw_pending' = [hw_pending EXCEPT !["invldt"] = @ + owed]
        /\ Upd(t, [NoFrame EXCEPT
                    !.op = "tlb_unmap", !.n_pages = n_pages,
                    !.i = Cardinality(DOMAIN tlb) - Cardinality(DOMAIN T)])
        /\ UNCHANGED <<memvars, allocvars, resvars, lockvars, wait_flag,
                       envvars, oops>>

NextTlb ==
    \/ \E a \in TlbAddrs, n \in 0 .. MaxTlbPages, h \in BOOLEAN :
            \E pa \in TlbPaddrs(n) : TlbMap(1, a, pa, n, h)
    \/ \E a \in TlbAddrs, n \in 0 .. MaxTlbPages, h \in BOOLEAN :
            TlbUnmap(1, a, n, h)
    \/ hw_complete("invldt")

InitTlb == Init /\ ~thp

SpecTlb == InitTlb /\ [][NextTlb]_vars

\* ------------------------------------------- the host fault on its own
\* fpga_do_host_fault in thread 1, for the last page of the area alone or
\* for a range that runs past the end of the area, while the clock runs and
\* the notifier is called in thread 2 for the same page
HostFault(t) ==
    \E n \in 1 .. 2, not \in {NULL, 1} :
        fpga_do_host_fault(t, PageAddr(NumVPages - 1), n, 0, not)

NotifyLast(t) ==
    \E own \in BOOLEAN :
        cyt_interval_invalidate(t, PageAddr(NumVPages - 1), VmaEnd, own, TRUE)

HostFaultStep(t) ==
    \/ fpga_do_host_fault_loop(t)
    \/ fpga_do_host_fault_fault(t)
    \/ fpga_do_host_fault_retry(t)
    \/ fpga_do_host_fault_map(t)
    \/ Return(t)

NextHostFault ==
    \/ HostFault(1)
    \/ HostFaultStep(1)
    \/ Tick
    \/ NotifyLast(2)
    \/ NotifyStep(2)
    \/ hw_complete("invldt")

InitHostFault == InitFail /\ ~thp

\* the thread of the fault keeps running and the clock keeps ticking
SpecHostFault ==
    /\ InitHostFault
    /\ [][NextHostFault]_vars
    /\ WF_vars(HostFaultStep(1))
    /\ WF_vars(Tick)

\* ------------------------------------------- concurrent page allocator
\* alloc_private_page and cpu_free_private_page called from two contexts.
\* The test of d->free_pages at the top of alloc_private_page is made
\* without the lock and is a step of its own, and so are the allocation of a
\* chunk, spin_lock(&d->page_lock) and the pop that ends with spin_unlock.
\* fr[t].dpages are the pages t was handed and has not released.  The other
\* specifications take the allocator calls as one step and leave page_lock
\* as it is.

\* spin_lock and spin_unlock by context t; spin_unlock stores 0 in the lock
\* whoever holds it
spin_lock(L, t) ==
    [holder |-> t, depth |-> [L.depth EXCEPT ![t] = @ + 1]]
spin_unlock(L, t) ==
    [holder |-> 0, depth |-> [L.depth EXCEPT ![t] = @ - 1]]

\* alloc_private_page: the call and the unlocked test of d->free_pages
alloc_private_page_check(t) ==
    /\ ~oops
    /\ fr[t].pc = "idle"
    /\ page_lock.depth[t] > -MaxUnbalanced
    /\ Upd(t, [fr[t] EXCEPT !.op = "alloc_private_page",
                            !.pc = IF free_pages = NULL THEN "ap_grow"
                                   ELSE "ap_lock"])
    /\ UNCHANGED <<memvars, tlbvars, allocvars, resvars, lockvars, hwvars,
                   envvars, oops>>

\* the chunks that are remapped and not yet recorded in d->mem_sections
Mapped == Cardinality({u \in Threads : fr[u].pc = "ap_push"})

\* alloc_new_prvt_pages up to memremap_pages (lines 1338-1372), and the
\* test of its result in alloc_private_page with the spin_unlock of
\* line 1306
alloc_private_page_grow(t) ==
    /\ ~oops
    /\ fr[t].pc = "ap_grow"
    /\ \E outcome \in (IF mem_sections + Mapped < MaxChunks THEN {"ok"}
                       ELSE GrowOutcomes \ {"ok"}) :
            LET g == alloc_new_prvt_pages(Alloc, outcome)
            IN  IF g.ret # "OK"
                THEN /\ page_lock' = spin_unlock(page_lock, t)
                     /\ Upd(t, [fr[t] EXCEPT !.op = "none", !.pc = "idle"])
                ELSE /\ UNCHANGED page_lock
                     /\ Upd(t, [fr[t] EXCEPT
                                !.pc = IF outcome = "ok" THEN "ap_push"
                                       ELSE "ap_lock"])
    /\ UNCHANGED <<memvars, tlbvars, allocvars, resvars, mmu_lock, dma_lock,
                   hwvars, envvars, oops>>

\* alloc_new_prvt_pages, lines 1374-1390: the chunk is recorded and its
\* pages are pushed under page_lock
alloc_private_page_push(t) ==
    LET g == alloc_new_prvt_pages(Alloc, "ok")
    IN  /\ ~oops
        /\ fr[t].pc = "ap_push"
        /\ page_lock.holder = 0
        /\ free_pages' = g.A.head
        /\ zdd' = g.A.zdd
        /\ mem_sections' = g.A.sections
        /\ Upd(t, [fr[t] EXCEPT !.pc = "ap_lock"])
        /\ UNCHANGED <<memvars, tlbvars, resvars, lockvars, hwvars, envvars,
                       oops>>

\* alloc_private_page: spin_lock of line 1312
alloc_private_page_lock(t) ==
    /\ ~oops
    /\ fr[t].pc = "ap_lock"
    /\ page_lock.holder = 0
    /\ page_lock' = spin_lock(page_lock, t)
    /\ Upd(t, [fr[t] EXCEPT !.pc = "ap_pop"])
    /\ UNCHANGED <<memvars, tlbvars, allocvars, resvars, mmu_lock, dma_lock,
                   hwvars, envvars, oops>>

\* alloc_private_page: the pop, spin_unlock and the return
alloc_private_page_pop(t) ==
    /\ ~oops
    /\ fr[t].pc = "ap_pop"
    /\ IF free_pages = NULL
       THEN /\ Crash(t)
            /\ UNCHANGED <<allocvars, page_lock>>
       ELSE /\ free_pages' = zdd[free_pages]
            /\ zdd' = [zdd EXCEPT ![free_pages] = NULL]
            /\ page_lock' = spin_unlock(page_lock, t)
            /\ Upd(t, [fr[t] EXCEPT !.op = "none", !.pc = "idle",
                                    !.dpages = Append(@, free_pages)])
            /\ UNCHANGED <<mem_sections, oops>>
    /\ UNCHANGED <<memvars, tlbvars, resvars, mmu_lock, dma_lock, hwvars,
                   envvars>>

\* cpu_free_private_page on a page the caller holds: the push under
\* page_lock
cpu_free_private_page_call(t) ==
    /\ ~oops
    /\ fr[t].pc = "idle"
    /\ page_lock.holder = 0
    /\ \E k \in DOMAIN fr[t].dpages :
            LET page == fr[t].dpages[k]
                A == cpu_free_private_page(Alloc, page)
            IN  /\ free_pages' = A.head
                /\ zdd' = A.zdd
                /\ Upd(t, [fr[t] EXCEPT !.dpages = SeqWithout(@, page)])
    /\ UNCHANGED <<memvars, tlbvars, mem_sections, resvars, lockvars, hwvars,
                   envvars, oops>>

NextAlloc ==
    \E t \in Threads :
        \/ alloc_private_page_check(t)
        \/ alloc_private_page_grow(t)
        \/ alloc_private_page_push(t)
        \/ alloc_private_page_lock(t)
        \/ alloc_private_page_pop(t)
        \/ cpu_free_private_page_call(t)

SpecAlloc == Init /\ [][NextAlloc]_vars

\* two execution contexts, each with a page of its own: each takes the
\* accelerator fault on its page while no mapping of it is installed, and
\* then the host CPU fault on the page, which ends its run
MigrateStepTwo(t) ==
    \/ mmu_handler_dispatch(t)
    \/ mmu_handler_exit(t)
    \/ fpga_migrate_to_card_setup(t)
    \/ fpga_migrate_to_card_invalidate(t)
    \/ fpga_migrate_to_card_stage(t)
    \/ fpga_migrate_to_card_zone(t)
    \/ fpga_migrate_to_card_wait(t)
    \/ fpga_migrate_to_card_dma(t)
    \/ fpga_migrate_to_card_dma_wait(t)
    \/ fpga_migrate_to_card_commit(t)
    \/ fpga_migrate_to_card_map(t)
    \/ fr[t].op = "mmu_handler" /\ Return(t)

FaultStepTwo(t) ==
    \/ cpu_migrate_to_host_setup(t)
    \/ cpu_migrate_to_host_invalidate(t)
    \/ cpu_migrate_to_host_stage(t)
    \/ cpu_migrate_to_host_addresses(t)
    \/ cpu_migrate_to_host_wait(t)
    \/ cpu_migrate_to_host_dma(t)
    \/ cpu_migrate_to_host_dma_wait(t)
    \/ cpu_migrate_to_host_commit(t)

\* the accelerator faults on page v when no mapping of it is installed
TlbMiss(t, v) ==
    /\ <<FALSE, PageNo(v)>> \notin DOMAIN tlb
    /\ mmu_handler_hmm(t, PageAddr(v), 8, 0, CARD_ACCESS)

NextTwo ==
    \/ TlbMiss(1, 0)
    \/ TlbMiss(2, 1)
    \/ cpu_migrate_to_host(1, PageAddr(0))
    \/ cpu_migrate_to_host(2, PageAddr(1))
    \/ MigrateStepTwo(1)
    \/ MigrateStepTwo(2)
    \/ FaultStepTwo(1)
    \/ FaultStepTwo(2)
    \/ Hardware

SpecTwo == InitTlb /\ [][NextTwo]_vars

\* the migrations alone, where the running operation goes on and the
\* accelerator and the DMA engines raise every completion they owe
SpecOneFair == SpecOne /\ WF_vars(Step(1)) /\ WF_vars(Hardware)

\* the notifier and the migrations one after the other: each runs to its
\* return while the other context is idle
NextSeq ==
    \/ fr[2].pc = "idle" /\ MigrateOne(1)
    \/ Step(1)
    \/ fr[1].pc = "idle" /\ Notify(2)
    \/ NotifyStep(2)
    \/ FaultStep(2)
    \/ Hardware

SpecSeq == Init /\ [][NextSeq]_vars

\* ------------------------------------- reclaim during page allocation
\* alloc_page_vma / alloc_pages_vma of the staging loop of
\* fpga_migrate_to_host (lines 744, 766) allocate with GFP_HIGHUSER_MOVABLE
\* and may enter direct reclaim.  Reclaim of a page of the registered range
\* makes the host memory manager call cyt_interval_invalidate in the
\* allocating context, with an event that is not this device's migration
\* and that may block.  The callback is at line 162 with pc "mh_reclaim".
alloc_page_vma_reclaim(t) ==
    LET f == fr[t]
    IN  /\ ~oops
        /\ f.pc = "mh_stage"
        /\ f.i < f.npages
        /\ f.src[f.i + 1]
        /\ \E v \in VPages : pte[v].k = "host"
        /\ cur_seq < MaxSeq
        /\ cur_seq' = cur_seq + 1
        /\ Upd(t, [f EXCEPT !.pc = "mh_reclaim"])
        /\ UNCHANGED <<memvars, tlbvars, allocvars, resvars, lockvars, hwvars,
                       notifier_seq, jiffies, faults, oops>>

\* lines 162-180 of that callback on the range of one host page:
\* mutex_lock(&d->mmu_lock) waits while the lock is held, by whomever; then
\* the sequence number, the teardown and the unlock, and the allocation
\* goes on
cyt_interval_invalidate_reclaim(t) ==
    LET f == fr[t]
    IN  /\ ~oops
        /\ f.pc = "mh_reclaim"
        /\ mmu_lock = 0
        /\ \E v \in {w \in VPages : pte[w].k = "host"} :
            LET psz == pg_inc_of(thp) * PAGE_SIZE
                start == (PageAddr(v) \div psz) * psz
                end == ((PageAddr(v) + PAGE_SIZE + psz - 1) \div psz) * psz
                n_pages == Shr(end, PAGE_SHIFT) - Shr(start, PAGE_SHIFT)
                va == Shl(start, PAGE_SHIFT)
                owed == n_last(invalidate_cmds(va, n_pages, thp))
            IN  /\ hw_pending["invldt"] + owed <= MaxHwPending
                /\ notifier_seq' = cur_seq
                /\ tlb' = tlb_unmap_hmm(tlb, va, n_pages, thp)
                /\ hw_pending' = [hw_pending EXCEPT !["invldt"] = @ + owed]
        /\ Upd(t, [f EXCEPT !.pc = "mh_stage"])
        /\ UNCHANGED <<memvars, allocvars, resvars, lockvars, wait_flag, oops,
                       cur_seq, jiffies, faults>>

\* the migrations of one context, with reclaim during its allocations
NextReclaim ==
    \/ NextOne
    \/ alloc_page_vma_reclaim(1)
    \/ cyt_interval_invalidate_reclaim(1)

SpecReclaim == Init /\ [][NextReclaim]_vars

\* ------------------------------------------------------------ properties
\* the pages of the range the migration of frame f was called with
RangeOf(f) ==
    {v \in VPages : PageAddr(v) >= f.vaddr /\
                    PageAddr(v) < f.vaddr + f.n_pages * PAGE_SIZE}

\* the key of the entry that covers page v at a granularity
KeyOf(v, huge) ==
    <<huge, (PageNo(v) \div pg_inc_of(huge)) * pg_inc_of(huge)>>

\* STRM_ACCESS is the host (streaming) direction of an entry
IsHostDir(e) == e.host \in {HOST_ACCESS, STRM_ACCESS}

\* the entries of table T that cover page v, at either granularity
EntriesOf(T, v) ==
    [k \in {KeyOf(v, h) : h \in BOOLEAN} \cap DOMAIN T |-> T[k]]

Quiescent == \A t \in Threads : fr[t].pc = "idle"

\* how the walk of the free list ends
RECURSIVE FreeEnd(_, _, _)
FreeEnd(head, z, seen) ==
    IF head = NULL THEN "null"
    ELSE IF head \in seen THEN "cycle"
    ELSE IF head \notin DevPages THEN "wild"
    ELSE FreeEnd(z[head], z, seen \cup {head})

\* device-private pages whose record is on a residency list
ResidentPages ==
    {p \in DevPages : zdd[p] \in InfoIds /\ info[zdd[p]].linked}

RegisteredPages ==
    {p \in DevPages : p <= DevPfnBase + mem_sections * DEVMEM_CHUNK_PAGES}

\* C1: when fpga_migrate_to_card or fpga_migrate_to_host has returned
\* success, every page of the range is resident on exactly one side, a
\* page the call moved has a TLB entry, and the entry of a page of the
\* range carries the address of the page backing it and the direction of
\* that side: the card address of its record and Card after a device-ward
\* move, its host frame and Host after a host-ward move.
C1_SuccessPostcondition ==
    \A t \in Threads :
        (fr[t].pc = "done" /\ fr[t].fn \in {"to_host", "to_card"} /\
         fr[t].ret = "OK") =>
            \A v \in RangeOf(fr[t]) :
                LET k == KeyOf(v, fr[t].hugepages)
                    i == v - VIndex(fr[t].vaddr) + 1
                IN  /\ pte[v].k \in {"host", "dev"}
                    /\ (i \in DOMAIN fr[t].src /\ fr[t].src[i]) =>
                            k \in DOMAIN tlb
                    /\ k \in DOMAIN tlb =>
                        IF fr[t].fn = "to_card"
                        THEN /\ pte[v].k = "dev"
                             /\ tlb[k].host = CARD_ACCESS
                             /\ tlb[k].paddr =
                                    card_address_of(zdd, info, pte[v].pg)
                        ELSE /\ pte[v].k = "host"
                             /\ IsHostDir(tlb[k])
                             /\ tlb[k].paddr = pte[v].pg

\* C2: when a migration has returned -ENOMEM, every page of the range is
\* resident where it was when the call began and the TLB entries covering
\* the range are the ones that were there when the call began.
C2_OutOfMemoryRollsBack ==
    \A t \in Threads :
        (fr[t].pc = "done" /\ fr[t].fn \in {"to_host", "to_card"} /\
         fr[t].ret = "ENOMEM") =>
            \A v \in RangeOf(fr[t]) :
                /\ pte[v] = fr[t].snap.pte[v]
                /\ EntriesOf(tlb, v) = EntriesOf(fr[t].snap.tlb, v)

\* C3: after free_card_mem the residency list of the context is empty, and
\* over any sequence of migrations and free_card_mem calls a card address
\* is never released twice (no release of an address that is not
\* allocated) and never kept (between operations every allocated card
\* address is that of a record on a residency list).
C3_CardMemoryReturnedOnce ==
    /\ \A t \in Threads :
        (fr[t].pc = "done" /\ fr[t].op = "free_card_mem") =>
            migrated_pages[fr[t].ctid] = <<>>
    /\ card_bad_free = {}
    /\ Quiescent =>
        \A a \in card_used :
            \E id \in InfoIds : info[id].linked /\ info[id].card_address = a

\* C4: between operations the free list of device-private pages ends, holds
\* only pages of registered chunks, each once, holds no page whose record
\* is on a residency list, and together with those pages accounts for every
\* page of every registered chunk.
C4_AllocatorInvariant ==
    Quiescent =>
        /\ FreeEnd(free_pages, zdd, {}) = "null"
        /\ FreeSet \subseteq RegisteredPages
        /\ FreeSet \cap ResidentPages = {}
        /\ Cardinality(FreeSet) + Cardinality(ResidentPages)
                = mem_sections * DEVMEM_CHUNK_PAGES

\* the destination pages a failed staging loop had staged
StagedDest(f) ==
    {f.dpages[i] : i \in {j \in DOMAIN f.dpages : f.src[j] /\ f.dpages[j] # NULL}}

\* C6: a device-ward migration of n regular pages that are all eligible and
\* all get a device page completes, and when it has returned every page of
\* the range has a Card entry carrying the card address of its own
\* destination page, the n addresses are distinct, and the residency list
\* of the context is n records longer than when the call began.
C6_DeviceWardInstallsEachPage ==
    \A t \in Threads :
        LET f == fr[t]
        IN  (f.fn = "to_card" /\ ~f.hugepages /\ f.npages > 0 /\
             f.cpages = f.npages /\ ~f.dpages_fail) =>
                /\ f.pc # "oops"
                /\ (f.pc = "done" /\ f.ret = "OK") =>
                    /\ \A v \in RangeOf(f) :
                        /\ KeyOf(v, FALSE) \in DOMAIN tlb
                        /\ tlb[KeyOf(v, FALSE)].host = CARD_ACCESS
                        /\ pte[v].k = "dev"
                        /\ tlb[KeyOf(v, FALSE)].paddr =
                                card_address_of(zdd, info, pte[v].pg)
                    /\ \A v, w \in RangeOf(f) :
                        v # w => tlb[KeyOf(v, FALSE)].paddr #
                                 tlb[KeyOf(w, FALSE)].paddr
                    /\ Len(migrated_pages[f.ctid]) =
                            Len(f.snap.lists[f.ctid]) + f.npages

\* C7: when a host-ward migration of regular pages of which some were
\* host-resident (not collected) and some device-resident (collected) has
\* returned success, the array slots of a page that was not collected are
\* empty (nothing is copied for it), the card address of every collected
\* page is back with the card allocator, and every page of the range has a
\* Host entry at its own virtual address.
C7_HostWardMixedRange ==
    \A t \in Threads :
        LET f == fr[t]
        IN  (f.pc = "done" /\ f.fn = "to_host" /\ f.ret = "OK" /\
             ~f.hugepages /\ (\E i \in DOMAIN f.src : f.src[i]) /\
             (\E i \in DOMAIN f.src : ~f.src[i])) =>
                /\ \A i \in DOMAIN f.src :
                    ~f.src[i] => f.host_address[i] = 0 /\ f.card_address[i] = 0
                /\ Range(f.calloc) \cap card_used = {}
                /\ \A v \in RangeOf(f) :
                    /\ KeyOf(v, FALSE) \in DOMAIN tlb
                    /\ IsHostDir(tlb[KeyOf(v, FALSE)])

\* C8: when a staging loop got a destination page for some page and none
\* for another, the call ends with -ENOMEM and the staged migration
\* aborted, and every destination page it had staged is unlocked and back
\* with its own allocator once: a device-private page on the free list,
\* which still ends, a host page with the host and not on the free list.
C8_PartialStagingUndone ==
    \A t \in Threads :
        LET f == fr[t]
        IN  (f.fn \in {"to_host", "to_card"} /\ f.dpages_fail /\
             f.pc \in {"done", "oops", "h_exit", "u_exit"} /\
             StagedDest(f) # {}) =>
                /\ f.pc # "oops"
                /\ f.ret = "ENOMEM"
                /\ f.staged = "aborted"
                /\ \A p \in StagedDest(f) :
                    /\ p \notin page_locked
                    /\ p \in DevPages =>
                        /\ p \in FreeSet
                        /\ FreeEnd(free_pages, zdd, {}) = "null"
                    /\ p \in HostFrames =>
                        /\ p \in host_free
                        /\ p \notin FreeSet

\* C10: while mmu_handler_hmm runs for a stream that is neither HOST_ACCESS
\* nor CARD_ACCESS no step changes a TLB entry, the residency of a page or
\* a residency list, no migration function runs, and it returns -EINVAL
\* without the reference and the read lock on the address space; for
\* HOST_ACCESS the handler dispatches to fpga_migrate_to_host only, for
\* CARD_ACCESS to fpga_migrate_to_card only, and it returns what that
\* returned.
C10_HandlerDispatch ==
    [][\A t \in Threads :
        fr'[t].op = "mmu_handler" =>
            /\ fr'[t].in.stream = BAD_ACCESS =>
                /\ tlb' = tlb
                /\ pte' = pte
                /\ migrated_pages' = migrated_pages
                /\ card_used' = card_used
                /\ fr'[t].fn = "none"
                /\ fr'[t].pc = "done" => fr'[t].ret = "EINVAL" /\ ~fr'[t].mm
            /\ fr'[t].in.stream = HOST_ACCESS =>
                    fr'[t].fn \in {"none", "cpu", "to_host"}
            /\ fr'[t].in.stream = CARD_ACCESS =>
                    fr'[t].fn \in {"none", "cpu", "to_card"}
            /\ (fr[t].pc = "h_exit" /\ fr'[t].pc = "done") =>
                    fr'[t].ret = fr[t].ret /\ ~fr'[t].mm]_vars

\* a migration that has torn down the entries of its range and has not yet
\* installed the new ones
MidMigration ==
    {"mc_stage", "mc_undo", "mc_zone", "mc_wait", "mc_dma", "mc_dma_wait",
     "mc_commit", "mc_map",
     "mh_stage", "mh_undo", "mh_addr", "mh_wait", "mh_dma", "mh_dma_wait",
     "mh_commit", "mh_map",
     "cf_stage", "cf_undo", "cf_addr", "cf_wait", "cf_dma", "cf_dma_wait",
     "cf_commit"}

\* C5: however a notifier invalidation interleaves with a migration
\* (accelerator fault, CPU fault or explicit), the mapping table holds no
\* entry for a page of the migration's range from the moment the migration
\* has invalidated the range until it installs the new entries.
C5_NoEntryMidMigration ==
    \A t \in Threads :
        fr[t].pc \in MidMigration =>
            \A v \in RangeOf(fr[t]) : DOMAIN EntriesOf(tlb, v) = {}

\* the keys tlb_unmap_hmm may address in a range of n_pages at vaddr
RangeKeys(vaddr, n_pages, huge) ==
    {<<huge, vaddr + k>> : k \in 0 .. n_pages - 1}

\* C9: tlb_unmap_hmm is idempotent.  On a range without entries it leaves
\* the mapping table as it is, and a second call on the same range gives
\* the table the first call gave; the function has no failure path.
C9_RemoveIdempotent ==
    \A a \in TlbAddrs, n \in 0 .. MaxTlbPages, h \in BOOLEAN :
        LET once == tlb_unmap_hmm(tlb, a, n, h)
        IN  /\ tlb_unmap_hmm(once, a, n, h) = once
            /\ RangeKeys(a, n, h) \cap DOMAIN tlb = {} => once = tlb

\* tlb_unmap_hmm has run on a range without entries while the table holds
\* entries elsewhere
C9_Witness ==
    /\ fr[1].op = "tlb_unmap"
    /\ fr[1].n_pages > 0
    /\ fr[1].i = 0
    /\ DOMAIN tlb # {}
    /\ ~oops

\* the pcs at which an operation sleeps until the accelerator answers
BlockedPcs == WaitPcs("invldt") \cup WaitPcs("sync") \cup WaitPcs("offload")

\* C11: a notifier callback that may not block, for an event that is not
\* the device's own, runs while another context holds mmu_lock: none of its
\* steps removes a TLB entry, records the sequence number or puts it to
\* sleep, and at the lock it returns false at once.  A callback that may
\* block passes the lock only when it is free and then returns true.
C11_NonBlockingFailsAtOnce ==
    [][\A t \in Threads :
        (/\ fr[t].op = "notifier"
         /\ fr[t].in.stream = "other"
         /\ fr'[t] # fr[t]) =>
            /\ (fr[t].in.ctid = 0 /\ mmu_lock \notin {0, t}) =>
                /\ tlb' = tlb
                /\ notifier_seq' = notifier_seq
                /\ fr'[t].pc \notin BlockedPcs
                /\ fr[t].pc = "n_check" =>
                        fr'[t] = NotifierReturn("FALSE")
            /\ (fr[t].in.ctid = 1 /\ fr[t].pc = "n_check") =>
                /\ mmu_lock = 0
                /\ mmu_lock' = t
            /\ fr[t].pc = "n_unmap" => fr'[t] = NotifierReturn("TRUE")]_vars

\* C12: alloc_new_prvt_pages is all-or-nothing.  Whichever of its three
\* steps fails (the kzalloc of the chunk record, request_free_mem_region,
\* memremap_pages), it returns -ENOMEM, records no chunk and adds no page
\* to the free list; alloc_private_page on an empty free list whose refill
\* failed then returns NULL and hands out no page.
C12_GrowAllOrNothing ==
    \A outcome \in GrowOutcomes \ {"ok"} :
        LET g == alloc_new_prvt_pages(Alloc, outcome)
            r == alloc_private_page(Alloc, outcome)
        IN  /\ g.ret = "ENOMEM"
            /\ g.A = Alloc
            /\ free_pages = NULL =>
                /\ r.page = NULL
                /\ ~r.crash
                /\ r.A = Alloc

\* the pcs at which a migration function has returned to its caller
ReturnedPcs == {"done", "h_exit", "u_exit", "thp_ret"}

\* C13: when a migration function has returned an error after
\* migrate_vma_setup collected pages (no destination page, no address array, no
\* card memory, or the first page not migratable in cpu_migrate_to_host),
\* none of its destination pages is locked and the staged migration is
\* committed or aborted.
C13_ErrorAfterStaging ==
    \A t \in Threads :
        LET f == fr[t]
        IN  (/\ f.fn \in {"to_host", "to_card", "cpu"}
             /\ f.pc \in ReturnedPcs
             /\ f.staged # "no"
             /\ f.cpages > 0
             /\ \/ f.ret # "OK"
                \/ f.fn = "cpu" /\ ~f.src[1]) =>
                /\ f.staged \in {"committed", "aborted"}
                /\ \A i \in DOMAIN f.dpages : f.dpages[i] \notin page_locked

\* the device and host state fpga_do_host_fault could touch
HostFaultState ==
    <<pte, host_free, page_locked, thp, tlb, free_pages, zdd, mem_sections,
      info, migrated_pages, card_used, card_bad_free, mmu_lock, dma_lock,
      wait_flag, hw_pending, cur_seq, notifier_seq>>

SectionPcs == MidMigration \cup {"n_unmap"}

\* the pages the section of frame f works on
SectionRange(f) ==
    IF f.pc = "n_unmap"
    THEN {v \in VPages : PageAddr(v) >= f.in.vaddr /\
                         PageAddr(v) < f.in.vaddr + f.in.len}
    ELSE RangeOf(f)

\* C15: at most one thread at a time is inside an invalidate-to-map
\* section: two threads are never inside sections on overlapping ranges,
\* whichever entry point they came through (mmu_handler_hmm,
\* cpu_migrate_to_host, user_migrate_to_host, user_migrate_to_card, the
\* notifier).
C15_OneSectionAtATime ==
    \A t, u \in Threads :
        (/\ t # u
         /\ fr[t].pc \in SectionPcs
         /\ fr[u].pc \in SectionPcs) =>
            SectionRange(fr[t]) \cap SectionRange(fr[u]) = {}

\* the range frame f was called with lies outside the area
NoArea(f) ==
    \/ f.vaddr + f.n_pages * PAGE_SIZE <= VmaStart
    \/ f.vaddr >= VmaEnd

\* what a migration can change besides its own frame
DeviceState ==
    <<pte, host_free, page_locked, tlb, free_pages, zdd, mem_sections, info,
      migrated_pages, card_used, card_bad_free, dma_lock, wait_flag,
      hw_pending>>

C17_NotifierClearsRange ==
    [][\A t \in Threads :
        (/\ fr[t].op = "notifier"
         /\ fr[t].pc = "n_unmap"
         /\ fr'[t] = NotifierReturn("TRUE")) =>
            /\ \A v \in SectionRange(fr[t]) : DOMAIN EntriesOf(tlb', v) = {}
            /\ pte' = pte
            /\ migrated_pages' = migrated_pages
            /\ card_used' = card_used]_vars

\* C18: a notifier callback for a migration event of the device itself
\* returns true at its event check, whether mmu_lock is held or not, and no
\* step of the callback takes mmu_lock, records the sequence number or
\* removes a TLB entry.
C18_OwnEventNoEffect ==
    [][\A t \in Threads :
        (/\ fr[t].op = "notifier"
         /\ fr[t].in.stream = "own"
         /\ fr'[t] # fr[t]) =>
            /\ mmu_lock' = mmu_lock
            /\ notifier_seq' = notifier_seq
            /\ tlb' = tlb
            /\ fr[t].pc = "n_check" => fr'[t] = NotifierReturn("TRUE")]_vars

\* C19: no thread holds mmu_lock while it sleeps until a DMA completes: a
\* thread at the wait of trigger_dma_sync or trigger_dma_offload whose
\* completion flag is not yet set does not hold the lock.
C19_NoLockAcrossDmaWait ==
    \A t \in Threads, class \in {"sync", "offload"} :
        (fr[t].pc \in WaitPcs(class) /\ wait_flag[class] # FLAG_SET) =>
            mmu_lock # t

\* the steps of a migration function, in the order of the source
UnmapPcs == {"mc_unmap", "mh_unmap", "cf_unmap"}
StagePcs == {"mc_stage", "mh_stage", "cf_stage"}
DmaPcs == {"mc_dma", "mh_dma", "cf_dma"}
DmaWaitPcs == WaitPcs("sync") \cup WaitPcs("offload")
CommitPcs == {"mc_commit", "mh_commit", "cf_commit"}
MapPcs == {"mc_map", "mh_map"}

Rank(pc) ==
    IF pc \in {"mc_setup", "mh_setup", "cf_setup"} THEN 0
    ELSE IF pc \in UnmapPcs THEN 1
    ELSE IF pc \in StagePcs THEN 2
    ELSE IF pc \in {"mc_undo", "mh_undo", "cf_undo", "mc_zone", "mh_addr",
                    "cf_addr"} THEN 3
    ELSE IF pc \in WaitPcs("invldt") THEN 4
    ELSE IF pc \in DmaPcs THEN 5
    ELSE IF pc \in DmaWaitPcs THEN 6
    ELSE IF pc \in CommitPcs THEN 7
    ELSE IF pc \in MapPcs THEN 8
    ELSE 9

\* the completion flag a DMA wait reads
ClassOf(pc) == IF pc \in WaitPcs("sync") THEN "sync" ELSE "offload"

C21_SparseInstall ==
    \A a \in TlbAddrs, n \in 0 .. MaxTlbPages :
        \A pa \in TlbPaddrs(n) :
            LET T == tlb_map_hmm(tlb, a, pa, n, CARD_ACCESS, 0, FALSE)
            IN  \A i \in 0 .. n - 1 :
                    LET k == <<FALSE, a + i>>
                    IN  IF pa[i + 1] = 0
                        THEN /\ (k \in DOMAIN T) = (k \in DOMAIN tlb)
                             /\ k \in DOMAIN T => T[k] = tlb[k]
                        ELSE /\ k \in DOMAIN T
                             /\ T[k].paddr = pa[i + 1]

\* the number of granules in a range of n_pages regular pages
Granules(n_pages, huge) == n_pages \div pg_inc_of(huge)

\* C22: for every call of tlb_unmap_hmm over at least one granule (here:
\* a range that begins at an entry of the table, at the granularity of that
\* entry), one invalidate command is issued per granule of the range and
\* exactly one of them, the last one issued, carries is_last.
C22_OneInvalidatePerGranule ==
    \A k \in DOMAIN tlb, n \in 1 .. MaxTlbPages :
        LET a == k[2]
            h == k[1]
        IN  Granules(n, h) >= 1 =>
                LET cmds == invalidate_cmds(a, n, h)
                IN  /\ Len(cmds) = Granules(n, h)
                    /\ n_last(cmds) = 1
                    /\ cmds[Len(cmds)].last

\* the keys of the granules of a range of n_pages regular pages at vaddr
GranuleKeys(vaddr, n_pages, huge) ==
    {<<huge, vaddr + g * pg_inc_of(huge)>> :
        g \in 0 .. Granules(n_pages, huge) - 1}

\* C23: tlb_unmap_hmm and tlb_map_hmm cover the full range at the
\* granularity of the call: over n_pages regular pages (here: at the
\* address and granularity of an entry of the table) tlb_unmap_hmm leaves
\* no entry at any granule of the range, and tlb_map_hmm with every slot
\* resolved leaves an entry at every granule of the range, one per regular
\* page or one per huge page.
C23_FullRangeAtGranularity ==
    \A k \in DOMAIN tlb, n \in 1 .. MaxTlbPages :
        LET a == k[2]
            h == k[1]
            pa == [i \in 1 .. n |-> CardBase + 1]
        IN  /\ GranuleKeys(a, n, h) \cap
                    DOMAIN tlb_unmap_hmm(tlb, a, n, h) = {}
            /\ GranuleKeys(a, n, h) \subseteq
                    DOMAIN tlb_map_hmm(tlb, a, pa, n, CARD_ACCESS, 0, h)

\* C24: fpga_do_host_fault installs its mapping only from a fault that no
\* invalidation has superseded: at the step that installs the entries the
\* sequence number read before the fault is still the one the notifier has
\* recorded, so no notifier teardown of the range has completed since.
C24_HostFaultNotStale ==
    [][\A t \in Threads :
        (/\ fr[t].op = "host_fault"
         /\ fr[t].pc = "hf_map"
         /\ fr'[t].pc = "done") =>
            notifier_seq = fr[t].range_seq]_vars

\* the pages thread t was handed by alloc_private_page and still holds
Held(t) == {fr[t].dpages[k] : k \in DOMAIN fr[t].dpages}

\* C25: under every interleaving of alloc_private_page and
\* cpu_free_private_page calls on the device, no call pops from an empty free
\* list, every page handed out was taken off the free list, and no page is
\* held by two callers.
C25_AllocatorSafe ==
    /\ ~oops
    /\ \A t \in Threads :
        /\ Held(t) \cap FreeSet = {}
        /\ \A u \in Threads \ {t} : Held(t) \cap Held(u) = {}

\* the migrations between the submission of a copy of the class and the
\* reset of its completion flag
InCopy(class) == {t \in Threads : fr[t].pc \in WaitPcs(class)}

C27_MigrationTerminates ==
    \A t \in Threads :
        (fr[t].staged = "staged") ~>
            (fr[t].pc \in ReturnedPcs /\ fr[t].staged \in {"committed", "aborted"})

\* the pages of the area that are device-resident, and the record of one
Resident == {v \in VPages : pte[v].k = "dev"}
RecOf(v) == zdd[pte[v].pg]
OnList(c, id) == {k \in DOMAIN migrated_pages[c] : migrated_pages[c][k] = id}

\* C28: while no migration is in progress every device-resident page has a
\* record, the record is linked exactly once, into the list of its own
\* context, every record on a list is that of exactly one resident page, and
\* no two resident pages share a record or a device address.
C28_ResidencyMirror ==
    (~oops /\ \A t \in Threads : fr[t].pc = "idle") =>
        /\ \A v \in Resident :
            /\ RecOf(v) \in InfoIds
            /\ info[RecOf(v)].card_address \in card_used
            /\ \A c \in Ctids :
                Cardinality(OnList(c, RecOf(v))) =
                    IF c = info[RecOf(v)].ctid THEN 1 ELSE 0
        /\ \A c \in Ctids : \A k \in DOMAIN migrated_pages[c] :
                Cardinality({v \in Resident :
                                RecOf(v) = migrated_pages[c][k]}) = 1
        /\ \A v \in Resident : \A w \in Resident \ {v} :
            /\ RecOf(v) # RecOf(w)
            /\ info[RecOf(v)].card_address # info[RecOf(w)].card_address

\* C29: the request mmu_handler_hmm hands to the migration has its base at the
\* granule-aligned start of the access and as many regular pages as the
\* granules that intersect [vaddr, vaddr + len) hold, for regular and for huge
\* pages.
C29_RequestCoversAccess ==
    \A t \in Threads :
        LET f == fr[t]
            gsz == pg_inc_of(f.hugepages) * PAGE_SIZE
            gfirst == f.in.vaddr \div gsz
            glast == (f.in.vaddr + f.in.len - 1) \div gsz
        IN  (f.op = "mmu_handler" /\ f.pc \in {"mh_setup", "mc_setup"}) =>
                /\ f.vaddr = gfirst * gsz
                /\ f.n_pages = (glast - gfirst + 1) * pg_inc_of(f.hugepages)

\* C30: when a migration submits its DMA copy the accelerator owes no
\* invalidation completion: the invalidation this migration issued is
\* complete.  (The notifier does not run during a migration, so an owed
\* completion is that of the latest invalidation, the migration's own.)
C30_DmaAfterOwnInvalidation ==
    [][\A t \in Threads :
        (fr[t].pc \in DmaPcs /\ fr'[t].pc \in DmaWaitPcs) =>
            hw_pending["invldt"] = 0]_vars

\* C31: no context that holds d->mmu_lock waits for it in a notifier
\* callback run in its own context, and no context holds the lock after its
\* operation returned.
C31_NoSelfDeadlock ==
    \A t \in Threads :
        /\ ~(fr[t].pc = "mh_reclaim" /\ mmu_lock = t)
        /\ fr[t].pc \in {"idle", "done"} => mmu_lock # t

\* C32: every release of d->page_lock by a context follows an acquire by
\* that context, the lock is not held by a context that is allocating a new
\* chunk, and a context holds nothing of the lock when its allocator call
\* has returned.
C32_PageLockBalanced ==
    \A t \in Threads :
        /\ page_lock.depth[t] >= 0
        /\ fr[t].pc = "ap_grow" => page_lock.holder # t
        /\ fr[t].pc = "idle" =>
            /\ page_lock.holder # t
            /\ page_lock.depth[t] = 0

====
